---- MODULE Spec2Model ----
(***************************************************************************)
(* Open Trickler peripheral: the trickle control process (main.py), the    *)
(* motor actuator (motors.py), the scale controller as the control loop    *)
(* sees it (scales.py, A&D protocol) and the shared memcache store.        *)
(*                                                                         *)
(* Specifications: Spec (the control process), MotorSpec (the TricklerMotor *)
(* API), ScaleSpec (the three vendors' decoders on raw serial lines),      *)
(* UnitSpec (unit reconciliation against a scale that honours the unit     *)
(* command) and ApiSpec (the settings API of the REST controller).         *)
(*                                                                         *)
(* Conventions.                                                            *)
(*  - A value that may be Python's None is a sequence: <<>> is None and    *)
(*    <<v>> is the value v.                                                *)
(*  - Weights are integers counted in steps of the scale's resolution.     *)
(*  - Motor speeds (gpiozero's 0.0 .. 1.0) are counted in hundredths, so   *)
(*    a duty of 37 on the 0-100 scale is the speed 37.                     *)
(*  - A configuration value is tagged with its Python type: values read    *)
(*    from a ConfigParser section are strings, keyword arguments given by  *)
(*    a caller are numbers.                                                *)
(***************************************************************************)
EXTENDS Integers, Sequences, FiniteSets, TLC

VARIABLES
    mc,             \* the memcache store: key string -> None or a value
    pc,             \* position of the control process (main.py)
    auto_mode,      \* main(): local auto_mode
    target_weight,  \* main(): local target_weight
    target_unit,    \* main(): local target_unit
    scale,          \* the scale controller: weight, unit, status
    pid,            \* the PID controller's state
    motor,          \* TricklerMotor configuration: min_pwm, max_pwm, memcache
    pwm,            \* gpiozero.PWMOutputDevice: value (hundredths), closed
    exitCause,      \* which exit of trickler_loop the last control step took
    drove,          \* the last control step called trickler_motor.update
    serialOut,      \* command the last control step wrote to the serial port
    shutdownRuns,   \* how often TricklerMotor._graceful_exit has run
    termCause,      \* how the control process ended
    lastCall,       \* the last call made on the TricklerMotor API, with its frame
    serial,         \* SerialScale._serial: unopened, open, closed, close_failed
    sc,             \* a vendor's scale controller, decoding raw serial lines
    scLast,         \* the last SerialScale.update(): the raw read and its frame
    hw,             \* the physical scale as the unit reconciliation sees it
    rest,           \* the last settings-API request, with its frame
    wlog,           \* which component has written which store key
    led,            \* the LED process (leds.py)
    ble,            \* the Bluetooth process (ble_v1.py) and its client
    asked,          \* the (target_weight, target_unit) pairs writers asked for
    twin            \* the last PID call, with a fresh controller's answer to it

vars == <<mc, pc, auto_mode, target_weight, target_unit, scale, pid, motor, pwm,
          exitCause, drove, serialOut, shutdownRuns, termCause, lastCall,
          serial, sc, scLast, hw, rest, wlog, led, ble, asked, twin>>

\* The variables of the components the control process does not touch.
otherVars == <<sc, scLast, hw, rest>>

\* The variables of the peripheral processes and of the write log.
peripheralVars == <<wlog, led, ble, asked, twin>>

-----------------------------------------------------------------------------
(* Values *)

None == <<>>
Some(v) == <<v>>

\* A component that a specification does not run.
Idle == [op |-> "none"]

Units == {"GRAINS", "GRAMS"}
StatusMap == {"STABLE", "UNSTABLE", "OVERLOAD", "ERROR",
              "MODEL_NUMBER", "SERIAL_NUMBER", "ACKNOWLEDGE"}

MaxWeight == 2
MaxTarget == 2
Weights == (0 - 1) .. MaxWeight
Targets == 0 .. MaxTarget

-----------------------------------------------------------------------------
(* The memcache store *)

StrKey(name) == [kind |-> "str", name |-> name]
EnumKey(name) == [kind |-> "enum", name |-> name]

AUTO_MODE == StrKey("auto_mode")
TARGET_WEIGHT == StrKey("target_weight")
TARGET_UNIT == StrKey("target_unit")
KeyNames == {"auto_mode", "target_weight", "target_unit", "trickler_motor_speed"}

EmptyStore == [k \in KeyNames |-> None]

\* The client accepts str (and bytes) keys only: any other object fails in the
\* key check with a TypeError before anything is sent to the server.
check_key(key) == key.kind = "str"

McGet(store, key) == store[key.name]

\* set(): the store after the call, and whether the call raised.
McSet(store, key, value) ==
    IF check_key(key)
    THEN [store |-> [store EXCEPT ![key.name] = value], raised |-> FALSE]
    ELSE [store |-> store, raised |-> TRUE]

-----------------------------------------------------------------------------
(* TricklerMotor *)

Str(v) == [t |-> "str", v |-> v]
Num(v) == [t |-> "num", v |-> v]

\* gpiozero.PWMOutputDevice(pin): initial_value is 0
PwmInit_running == [value |-> 100, closed |-> FALSE]
PwmInit == [value |-> 0, closed |-> FALSE]

\* The key set_speed publishes under: the Enum member, not its .value string.
MotorSpeedKey == EnumKey("TRICKLER_MOTOR_SPEED")

Min2(a, b) == IF b < a THEN b ELSE a
Max2(a, b) == IF b > a THEN b ELSE a

SpeedInRange_no_lower(speed) == speed <= 100
SpeedInRange(speed) == 0 <= speed /\ speed <= 100

\* set_speed(speed): the pwm, the store, and whether the call raised.
set_speed(m, p, store, speed) ==
    IF SpeedInRange(speed)
    THEN LET p2 == [p EXCEPT !.value = speed] IN
         IF m.memcache
         THEN LET r == McSet(store, MotorSpeedKey, Some(p2.value)) IN
              [pwm |-> p2, mc |-> r.store, raised |-> r.raised]
         ELSE [pwm |-> p2, mc |-> store, raised |-> FALSE]
    ELSE [pwm |-> p, mc |-> store, raised |-> FALSE]

\* update(target_pwm): max(min(int(target_pwm), max_pwm), min_pwm) compares an
\* int with the configured bounds; a bound that is a str raises TypeError.
update(m, p, store, target_pwm) ==
    IF m.max_pwm.t = "str" \/ m.min_pwm.t = "str"
    THEN [pwm |-> p, mc |-> store, raised |-> TRUE]
    ELSE set_speed(m, p, store, Max2(Min2(target_pwm, m.max_pwm.v), m.min_pwm.v))

off(m, p, store) == set_speed(m, p, store, 0)

_graceful_exit(p) == [value |-> 0, closed |-> TRUE]

-----------------------------------------------------------------------------
(* PID controller (module PID, imported by main.py) *)

Kp == 2
Ki == 1
Kd == 0
PidOutMin == 0
PidOutMax == 100

PidNew == [SetPoint |-> 0, ITerm |-> 0, last_error |-> 0, started |-> FALSE,
           output |-> 0]

Clamp(x, lo, hi) == Max2(Min2(x, hi), lo)

\* update(process_variable), one tick of elapsed time between two calls.
pid_update(p, pv) ==
    LET error == p.SetPoint - pv
        integral == p.ITerm + error
        derivative == IF p.started THEN error - p.last_error ELSE 0
    IN [p EXCEPT !.ITerm = integral,
                 !.last_error = error,
                 !.started = TRUE,
                 !.output = Clamp(Kp * error + Ki * integral + Kd * derivative,
                                  PidOutMin, PidOutMax)]

pid_clear_keeps_integral(p) == [p EXCEPT !.last_error = 0]

\* clear(): integral and previous error are zeroed, coefficients and setpoint kept.
pid_clear(p) == [p EXCEPT !.ITerm = 0, !.last_error = 0]

PidCleared(p) == p.ITerm = 0 /\ p.last_error = 0

-----------------------------------------------------------------------------
(* Scale controller, A&D protocol, as read by the control loop *)

ScaleDefault == [weight |-> 0, unit |-> "GRAINS", status |-> "STABLE"]

\* A line of telemetry: its two-character prefix, its weight field (None when the
\* field is not a decimal number) and its unit token (None when unknown).
WeightLines == [prefix : {"ST", "US"}, weight : {Some(w) : w \in Weights},
                unit : {Some(u) : u \in Units}]
StatusLines == [prefix : {"OL", "EC", "AK", "TN", "SN"}, weight : {None}, unit : {None}]
NoiseLines == [prefix : {""}, weight : {None}, unit : {None}]
MalformedLines == {[prefix |-> "ST", weight |-> None, unit |-> Some("GRAINS")],
                   [prefix |-> "US", weight |-> Some(0), unit |-> None]}
Lines == WeightLines \cup StatusLines \cup NoiseLines \cup MalformedLines

PrefixStatus(prefix) ==
    CASE prefix = "ST" -> "STABLE"
      [] prefix = "US" -> "UNSTABLE"
      [] prefix = "OL" -> "OVERLOAD"
      [] prefix = "EC" -> "ERROR"
      [] prefix = "AK" -> "ACKNOWLEDGE"
      [] prefix = "TN" -> "MODEL_NUMBER"
      [] prefix = "SN" -> "SERIAL_NUMBER"

\* _stable_unstable(line): decimal.Decimal(weight) and unit_map[unit] raise on a
\* field they cannot convert, after the assignments made before them.
_stable_unstable(s, line) ==
    IF line.weight = None
    THEN [scale |-> s, raised |-> TRUE]
    ELSE IF line.unit = None
    THEN [scale |-> [s EXCEPT !.weight = line.weight[1]], raised |-> TRUE]
    ELSE [scale |-> [s EXCEPT !.weight = line.weight[1], !.unit = line.unit[1]],
          raised |-> FALSE]

\* update(): one line read and handled; the scale after it and whether it raised.
scale_update(s, line) ==
    IF line.prefix \in {"ST", "US"}
    THEN _stable_unstable([s EXCEPT !.status = PrefixStatus(line.prefix)], line)
    ELSE IF line.prefix \in {"OL", "EC", "AK", "TN", "SN"}
    THEN [scale |-> [s EXCEPT !.status = PrefixStatus(line.prefix)], raised |-> FALSE]
    ELSE [scale |-> s, raised |-> FALSE]

is_stable(s) == s.status = "STABLE"

-----------------------------------------------------------------------------
(* The control process: main() and trickler_loop() *)

\* TricklerMotor(config, memcache=memcache): both bounds come from the
\* ConfigParser section, as strings.
MotorFromConfig == [min_pwm |-> Str(15), max_pwm |-> Str(100), memcache |-> TRUE]

NoCall == [op |-> "none", arg |-> 0, raised |-> FALSE,
           pre_pwm |-> PwmInit, pre_mc |-> EmptyStore]

OuterPcs == {"o_auto", "o_weight", "o_unit", "o_scale", "o_chg", "o_check"}
TricklerPcs == {"t_auto", "t_scale"}
Running == OuterPcs \cup {"armed"} \cup TricklerPcs

Init ==
    /\ mc = EmptyStore
    /\ pc = "start"
    /\ auto_mode = None
    /\ target_weight = None
    /\ target_unit = None
    /\ scale = ScaleDefault
    /\ pid = PidNew
    /\ motor = MotorFromConfig
    /\ pwm = PwmInit
    /\ exitCause = "none"
    /\ drove = FALSE
    /\ serialOut = "none"
    /\ shutdownRuns = 0
    /\ termCause = "none"
    /\ lastCall = NoCall
    /\ serial = "unopened"
    /\ sc = Idle
    /\ scLast = Idle
    /\ hw = Idle
    /\ rest = Idle
    /\ wlog = {}
    /\ led = Idle
    /\ ble = Idle
    /\ asked = {}
    /\ twin = Idle

Truthy(v) == v = Some(TRUE)

\* SerialScale._graceful_exit: self._serial.close().  The attribute _serial is
\* assigned by the constructor only when the port opened; reading it otherwise
\* raises AttributeError inside the finalizer.
scale_graceful_exit(ser) == IF ser = "open" THEN "closed" ELSE "close_failed"

\* An exception leaves main(): the interpreter exits and runs the atexit hooks,
\* the scale's (registered last) and then the motor's.
Dies(cause, p) ==
    /\ pc' = "exited"
    /\ serial' = scale_graceful_exit(serial)
    /\ pwm' = _graceful_exit(p)
    /\ shutdownRuns' = shutdownRuns + 1
    /\ termCause' = cause

Lives(next, p) ==
    /\ pc' = next
    /\ pwm' = p
    /\ UNCHANGED <<shutdownRuns, termCause, serial>>

\* main(), up to the first iteration of the outer loop.
MainInit ==
    /\ pc = "start"
    /\ \E serial_ok \in BOOLEAN, a \in BOOLEAN, w \in Targets, u \in Units :
          IF serial_ok
          THEN /\ mc' = [mc EXCEPT !["auto_mode"] = Some(a),
                                   !["target_weight"] = Some(w),
                                   !["target_unit"] = Some(u)]
               /\ serial' = "open"
               /\ pc' = "o_auto"
               /\ pwm' = PwmInit
               /\ UNCHANGED <<shutdownRuns, termCause>>
          ELSE /\ mc' = mc
               /\ Dies("ScaleNotReady", PwmInit)
    /\ scale' = ScaleDefault
    /\ pid' = PidNew
    /\ UNCHANGED <<auto_mode, target_weight, target_unit, motor,
                   exitCause, drove, serialOut, lastCall>>
    /\ UNCHANGED otherVars
    /\ UNCHANGED peripheralVars

OuterReadAuto ==
    /\ pc = "o_auto"
    /\ auto_mode' = McGet(mc, AUTO_MODE)
    /\ pc' = "o_weight"
    /\ exitCause' = "none"
    /\ drove' = FALSE
    /\ serialOut' = "none"
    /\ UNCHANGED <<mc, target_weight, target_unit, scale, pid, motor, pwm,
                   shutdownRuns, termCause, lastCall>>
    /\ UNCHANGED serial
    /\ UNCHANGED otherVars
    /\ UNCHANGED peripheralVars

OuterReadWeight ==
    /\ pc = "o_weight"
    /\ target_weight' = McGet(mc, TARGET_WEIGHT)
    /\ pc' = "o_unit"
    /\ UNCHANGED <<mc, auto_mode, target_unit, scale, pid, motor, pwm,
                   exitCause, drove, serialOut, shutdownRuns, termCause, lastCall>>
    /\ UNCHANGED serial
    /\ UNCHANGED otherVars
    /\ UNCHANGED peripheralVars

OuterReadUnit ==
    /\ pc = "o_unit"
    /\ target_unit' = McGet(mc, TARGET_UNIT)
    /\ pc' = "o_scale"
    /\ UNCHANGED <<mc, auto_mode, target_weight, scale, pid, motor, pwm,
                   exitCause, drove, serialOut, shutdownRuns, termCause, lastCall>>
    /\ UNCHANGED serial
    /\ UNCHANGED otherVars
    /\ UNCHANGED peripheralVars

\* pid.SetPoint = 100.0; scale.update()
OuterScale ==
    /\ pc = "o_scale"
    /\ pid' = [pid EXCEPT !.SetPoint = 100]
    /\ \E line \in Lines :
          LET r == scale_update(scale, line) IN
          /\ scale' = r.scale
          /\ IF r.raised THEN Dies("exception", pwm) ELSE Lives("o_chg", pwm)
    /\ UNCHANGED <<mc, auto_mode, target_weight, target_unit, motor,
                   exitCause, drove, serialOut, lastCall>>
    /\ UNCHANGED otherVars
    /\ UNCHANGED peripheralVars

\* if target_unit != scale.unit: scale.change_unit()
OuterChangeUnit ==
    /\ pc = "o_chg"
    /\ \E line \in Lines :
          LET differs == target_unit # Some(scale.unit)
              r == IF differs THEN scale_update(scale, line)
                   ELSE [scale |-> scale, raised |-> FALSE]
          IN /\ scale' = r.scale
             /\ serialOut' = IF differs THEN "U" ELSE "none"
             /\ IF r.raised THEN Dies("exception", pwm) ELSE Lives("o_check", pwm)
    /\ UNCHANGED <<mc, auto_mode, target_weight, target_unit, pid, motor,
                   exitCause, drove, lastCall>>
    /\ UNCHANGED otherVars
    /\ UNCHANGED peripheralVars

\* The condition of the if statement that arms the trickler.
ArmOK_no_stable(s, tw, tu, am) ==
    /\ s.weight >= 0
    /\ tw # None /\ s.weight < tw[1]
    /\ Some(s.unit) = tu
    /\ Truthy(am)
ArmOK_weight_le_target(s, tw, tu, am) ==
    /\ s.weight >= 0
    /\ tw # None /\ s.weight <= tw[1]
    /\ Some(s.unit) = tu
    /\ is_stable(s)
    /\ Truthy(am)
ArmOK(s, tw, tu, am) ==
    /\ s.weight >= 0
    /\ tw # None /\ s.weight < tw[1]
    /\ Some(s.unit) = tu
    /\ is_stable(s)
    /\ Truthy(am)

\* scale.weight < target_weight with target_weight None raises TypeError.
ArmRaises(s, tw) == s.weight >= 0 /\ tw = None

OuterCheck ==
    /\ pc = "o_check"
    /\ IF ArmRaises(scale, target_weight) THEN Dies("exception", pwm)
       ELSE IF ArmOK(scale, target_weight, target_unit, auto_mode)
       THEN Lives("armed", pwm)
       ELSE Lives("o_auto", pwm)
    /\ UNCHANGED <<mc, auto_mode, target_weight, target_unit, scale, pid, motor,
                   exitCause, drove, serialOut, lastCall>>
    /\ UNCHANGED otherVars
    /\ UNCHANGED peripheralVars

\* time.sleep(1), then trickler_loop() is entered.
Armed ==
    /\ pc = "armed"
    /\ pc' = "t_auto"
    /\ serialOut' = "none"
    /\ UNCHANGED <<mc, auto_mode, target_weight, target_unit, scale, pid, motor, pwm,
                   exitCause, drove, shutdownRuns, termCause, lastCall>>
    /\ UNCHANGED serial
    /\ UNCHANGED otherVars
    /\ UNCHANGED peripheralVars

\* The clean up tasks after the loop: trickler_motor.off(), then pid.clear().
ExitActions(cause, pid_now) ==
    LET r == off(motor, pwm, mc) IN
    /\ exitCause' = cause
    /\ mc' = r.mc
    /\ IF r.raised
       THEN /\ pid' = pid_now
            /\ Dies("exception", r.pwm)
       ELSE /\ pid' = pid_clear(pid_now)
            /\ Lives("o_auto", r.pwm)

\* a loop that reads all three settings again at the top of each iteration
TricklerCheckAuto_rereads_all ==
    /\ pc = "t_auto"
    /\ IF ~Truthy(McGet(mc, AUTO_MODE))
       THEN ExitActions("auto_mode", pid)
       ELSE /\ Lives("t_scale", pwm)
            /\ UNCHANGED <<mc, pid, exitCause>>
    /\ drove' = FALSE
    /\ target_weight' = McGet(mc, TARGET_WEIGHT)
    /\ target_unit' = McGet(mc, TARGET_UNIT)
    /\ UNCHANGED <<auto_mode, scale, motor, serialOut, lastCall>>
    /\ UNCHANGED otherVars
    /\ UNCHANGED peripheralVars

\* Top of the loop body: stop running if auto mode is disabled.
TricklerCheckAuto ==
    /\ pc = "t_auto"
    /\ IF ~Truthy(McGet(mc, AUTO_MODE))
       THEN ExitActions("auto_mode", pid)
       ELSE /\ Lives("t_scale", pwm)
            /\ UNCHANGED <<mc, pid, exitCause>>
    /\ drove' = FALSE
    /\ UNCHANGED <<auto_mode, target_weight, target_unit, scale, motor,
                   serialOut, lastCall>>
    /\ UNCHANGED otherVars
    /\ UNCHANGED peripheralVars

Percent_ratio(weight, target) == weight \div target

Percent(weight, target) == (weight * 100) \div target

\* The rest of the loop body: scale.update(), the three exits, the PID and motor.
TricklerIterate ==
    /\ pc = "t_scale"
    /\ \E line \in Lines :
          LET r == scale_update(scale, line)
              s == r.scale
          IN /\ scale' = s
             /\ IF r.raised
                THEN /\ Dies("exception", pwm)
                     /\ drove' = FALSE
                     /\ UNCHANGED <<mc, pid, exitCause>>
                ELSE IF Some(s.unit) # target_unit
                THEN ExitActions("unit", pid) /\ drove' = FALSE
                ELSE IF s.weight < 0
                THEN ExitActions("pan_removed", pid) /\ drove' = FALSE
                ELSE IF target_weight[1] = 0
                THEN /\ Dies("exception", pwm)
                     /\ drove' = FALSE
                     /\ UNCHANGED <<mc, pid, exitCause>>
                ELSE IF target_weight[1] - s.weight <= 0
                THEN ExitActions("complete", pid) /\ drove' = FALSE
                ELSE LET p2 == pid_update(pid, Percent(s.weight, target_weight[1]))
                         u == update(motor, pwm, mc, p2.output)
                     IN /\ pid' = p2
                        /\ drove' = TRUE
                        /\ mc' = u.mc
                        /\ exitCause' = "none"
                        /\ IF u.raised THEN Dies("exception", u.pwm)
                           ELSE Lives("t_auto", u.pwm)
    /\ UNCHANGED <<auto_mode, target_weight, target_unit, motor, serialOut, lastCall>>
    /\ UNCHANGED otherVars
    /\ UNCHANGED peripheralVars

-----------------------------------------------------------------------------
(* Termination of the control process *)

\* SIGINT: KeyboardInterrupt is raised in main() and nothing catches it.
Sigint ==
    /\ pc \in Running
    /\ Dies("sigint", pwm)
    /\ exitCause' = "none"
    /\ UNCHANGED <<mc, auto_mode, target_weight, target_unit, scale, pid, motor,
                   drove, serialOut, lastCall>>
    /\ UNCHANGED otherVars
    /\ UNCHANGED peripheralVars

\* SIGTERM: no handler is installed, the process is killed and no atexit hook runs.
Sigterm ==
    /\ pc \in Running
    /\ pc' = "killed"
    /\ termCause' = "sigterm"
    /\ exitCause' = "none"
    /\ UNCHANGED <<mc, auto_mode, target_weight, target_unit, scale, pid, motor, pwm,
                   drove, serialOut, shutdownRuns, lastCall>>
    /\ UNCHANGED serial
    /\ UNCHANGED otherVars
    /\ UNCHANGED peripheralVars

-----------------------------------------------------------------------------
(* Writers of the settings in the Bluetooth process *)

\* AutoMode.onWriteRequest with one byte of data at offset 0.
BleWriteAutoMode ==
    /\ mc["auto_mode"] # None
    /\ \E value \in BOOLEAN : mc' = McSet(mc, AUTO_MODE, Some(value)).store
    /\ UNCHANGED <<pc, auto_mode, target_weight, target_unit, scale, pid, motor, pwm,
                   exitCause, drove, serialOut, shutdownRuns, termCause, lastCall>>
    /\ UNCHANGED serial
    /\ UNCHANGED otherVars
    /\ UNCHANGED peripheralVars

\* TargetWeight.onWriteRequest with a decimal string at offset 0.
BleWriteTargetWeight ==
    /\ mc["target_weight"] # None
    /\ \E value \in Targets : mc' = McSet(mc, TARGET_WEIGHT, Some(value)).store
    /\ UNCHANGED <<pc, auto_mode, target_weight, target_unit, scale, pid, motor, pwm,
                   exitCause, drove, serialOut, shutdownRuns, termCause, lastCall>>
    /\ UNCHANGED serial
    /\ UNCHANGED otherVars
    /\ UNCHANGED peripheralVars

Next ==
    \/ MainInit
    \/ OuterReadAuto
    \/ OuterReadWeight
    \/ OuterReadUnit
    \/ OuterScale
    \/ OuterChangeUnit
    \/ OuterCheck
    \/ Armed
    \/ TricklerCheckAuto
    \/ TricklerIterate
    \/ Sigint
    \/ Sigterm
    \/ BleWriteAutoMode
    \/ BleWriteTargetWeight

Spec == Init /\ [][Next]_vars

-----------------------------------------------------------------------------
(* The control process next to a scale that is connected but silent: the    *)
(* port opens and every readline() times out with no bytes.                 *)

\* scale.update() on an empty read, in the outer loop
SilentScale ==
    /\ pc = "o_scale"
    /\ pid' = [pid EXCEPT !.SetPoint = 100]
    /\ \E line \in NoiseLines :
          LET r == scale_update(scale, line) IN
          /\ scale' = r.scale
          /\ IF r.raised THEN Dies("exception", pwm) ELSE Lives("o_chg", pwm)
    /\ UNCHANGED <<mc, auto_mode, target_weight, target_unit, motor,
                   exitCause, drove, serialOut, lastCall>>
    /\ UNCHANGED otherVars
    /\ UNCHANGED peripheralVars

\* change_unit() when the units differ: the command, then an empty read
SilentChangeUnit ==
    /\ pc = "o_chg"
    /\ \E line \in NoiseLines :
          LET differs == target_unit # Some(scale.unit)
              r == IF differs THEN scale_update(scale, line)
                   ELSE [scale |-> scale, raised |-> FALSE]
          IN /\ scale' = r.scale
             /\ serialOut' = IF differs THEN "U" ELSE "none"
             /\ IF r.raised THEN Dies("exception", pwm) ELSE Lives("o_check", pwm)
    /\ UNCHANGED <<mc, auto_mode, target_weight, target_unit, pid, motor,
                   exitCause, drove, lastCall>>
    /\ UNCHANGED otherVars
    /\ UNCHANGED peripheralVars

\* the body of trickler_loop on an empty read
SilentIterate ==
    /\ pc = "t_scale"
    /\ \E line \in NoiseLines :
          LET r == scale_update(scale, line)
              s == r.scale
          IN /\ scale' = s
             /\ IF Some(s.unit) # target_unit
                THEN ExitActions("unit", pid) /\ drove' = FALSE
                ELSE IF s.weight < 0
                THEN ExitActions("pan_removed", pid) /\ drove' = FALSE
                ELSE IF target_weight[1] - s.weight <= 0
                THEN ExitActions("complete", pid) /\ drove' = FALSE
                ELSE LET p2 == pid_update(pid, Percent(s.weight, target_weight[1]))
                         u == update(motor, pwm, mc, p2.output)
                     IN /\ pid' = p2
                        /\ drove' = TRUE
                        /\ mc' = u.mc
                        /\ exitCause' = "none"
                        /\ IF u.raised THEN Dies("exception", u.pwm)
                           ELSE Lives("t_auto", u.pwm)
    /\ UNCHANGED <<auto_mode, target_weight, target_unit, motor, serialOut, lastCall>>
    /\ UNCHANGED otherVars
    /\ UNCHANGED peripheralVars

NextSilent ==
    \/ MainInit
    \/ OuterReadAuto
    \/ OuterReadWeight
    \/ OuterReadUnit
    \/ SilentScale
    \/ SilentChangeUnit
    \/ OuterCheck
    \/ Armed
    \/ TricklerCheckAuto
    \/ SilentIterate
    \/ BleWriteAutoMode
    \/ BleWriteTargetWeight

SilentSpec == Init /\ [][NextSilent]_vars

-----------------------------------------------------------------------------
(* The TricklerMotor object under calls of its methods *)

PwmBounds == {Str(0), Str(15), Num(0), Num(15)} \X {Str(80), Str(100), Num(80), Num(100)}
MotorConfigs == {[min_pwm |-> b[1], max_pwm |-> b[2], memcache |-> c] :
                    b \in PwmBounds, c \in BOOLEAN}
TargetPwms == {0 - 30, 0, 10, 50, 90, 130}
Speeds == {0 - 1, 0, 50, 100, 101}

InitMotor ==
    /\ mc = EmptyStore
    /\ pc = "motor_api"
    /\ auto_mode = None
    /\ target_weight = None
    /\ target_unit = None
    /\ scale = ScaleDefault
    /\ pid = PidNew
    /\ motor \in MotorConfigs
    /\ pwm = PwmInit
    /\ exitCause = "none"
    /\ drove = FALSE
    /\ serialOut = "none"
    /\ shutdownRuns = 0
    /\ termCause = "none"
    /\ lastCall = NoCall
    /\ serial = "unopened"
    /\ sc = Idle
    /\ scLast = Idle
    /\ hw = Idle
    /\ rest = Idle
    /\ wlog = {}
    /\ led = Idle
    /\ ble = Idle
    /\ asked = {}
    /\ twin = Idle

Called(op, arg, r) ==
    /\ pwm' = r.pwm
    /\ mc' = r.mc
    /\ lastCall' = [op |-> op, arg |-> arg, raised |-> r.raised,
                    pre_pwm |-> pwm, pre_mc |-> mc]
    /\ UNCHANGED <<pc, auto_mode, target_weight, target_unit, scale, pid, motor,
                   exitCause, drove, serialOut, shutdownRuns, termCause>>
    /\ UNCHANGED serial
    /\ UNCHANGED otherVars
    /\ UNCHANGED peripheralVars

ApiUpdate ==
    /\ pc = "motor_api"
    /\ \E target_pwm \in TargetPwms :
          Called("update", target_pwm, update(motor, pwm, mc, target_pwm))

ApiSetSpeed ==
    /\ pc = "motor_api"
    /\ \E speed \in Speeds :
          Called("set_speed", speed, set_speed(motor, pwm, mc, speed))

ApiOff ==
    /\ pc = "motor_api"
    /\ Called("off", 0, off(motor, pwm, mc))

NextMotor ==
    \/ ApiUpdate
    \/ ApiSetSpeed
    \/ ApiOff

MotorSpec == InitMotor /\ [][NextMotor]_vars

-----------------------------------------------------------------------------
(* The scale controllers of scales.py, decoding raw serial lines.          *)
(* A Python str or bytes value is a sequence of one-character strings; a   *)
(* decimal.Decimal is its coefficient and its number of fraction digits,   *)
(* so 10.38 is [coef |-> 1038, exp |-> 2].                                 *)

Whitespace == {" ", "\t", "\r", "\n"}

Slice_end_inclusive(s, a, b) ==
    IF a >= Min2(b + 1, Len(s)) THEN <<>> ELSE SubSeq(s, a + 1, Min2(b + 1, Len(s)))

\* s[a:b] for 0 <= a <= b
Slice(s, a, b) ==
    IF a >= Min2(b, Len(s)) THEN <<>> ELSE SubSeq(s, a + 1, Min2(b, Len(s)))

RECURSIVE LStrip(_, _)
LStrip(s, chars) ==
    IF s # <<>> /\ Head(s) \in chars THEN LStrip(Tail(s), chars) ELSE s

RECURSIVE RStrip(_, _)
RStrip(s, chars) ==
    IF s # <<>> /\ s[Len(s)] \in chars
    THEN RStrip(SubSeq(s, 1, Len(s) - 1), chars)
    ELSE s

\* str.strip()
Strip(s) == RStrip(LStrip(s, Whitespace), Whitespace)

\* str.replace(' ', '')
RemoveSpaces(s) == SelectSeq(s, LAMBDA c : c # " ")

DigitChars == <<"0", "1", "2", "3", "4", "5", "6", "7", "8", "9">>
IsDigit(c) == \E d \in 1 .. 10 : DigitChars[d] = c
DigitValue(c) == (CHOOSE d \in 1 .. 10 : DigitChars[d] = c) - 1
AllDigits(s) == \A i \in 1 .. Len(s) : IsDigit(s[i])

RECURSIVE DigitsValue(_)
DigitsValue(s) ==
    IF s = <<>> THEN 0
    ELSE DigitsValue(SubSeq(s, 1, Len(s) - 1)) * 10 + DigitValue(s[Len(s)])

Dec(coef, exp) == [coef |-> coef, exp |-> exp]

\* decimal.Decimal(str) for the numeric strings [sign] digits [. digits]:
\* surrounding whitespace is dropped and every digit is kept.  None stands
\* for decimal.InvalidOperation.
Decimal(str) ==
    LET t == Strip(str)
        signed == t # <<>> /\ t[1] \in {"+", "-"}
        sgn == IF signed /\ t[1] = "-" THEN 0 - 1 ELSE 1
        body == IF signed THEN Tail(t) ELSE t
        dots == {i \in 1 .. Len(body) : body[i] = "."}
    IN  IF dots = {}
        THEN IF body # <<>> /\ AllDigits(body)
             THEN Some(Dec(sgn * DigitsValue(body), 0))
             ELSE None
        ELSE IF Cardinality(dots) = 1
        THEN LET i == CHOOSE j \in dots : TRUE
                 ip == SubSeq(body, 1, i - 1)
                 fp == SubSeq(body, i + 1, Len(body))
             IN  IF AllDigits(ip) /\ AllDigits(fp) /\ Len(ip) + Len(fp) > 0
                 THEN Some(Dec(sgn * DigitsValue(ip \o fp), Len(fp)))
                 ELSE None
        ELSE None

\* SCALES: 'and' and 'and-fx120' are both ANDScale.
Vendors == {"and", "creedmoor", "ussolid"}

unit_map(vendor) ==
    IF vendor = "ussolid"
    THEN (<<"g", "n">> :> "GRAINS") @@ (<<"g">> :> "GRAMS")
    ELSE (<<"G", "N">> :> "GRAINS") @@ (<<"g">> :> "GRAMS")

resolution_map(vendor) ==
    CASE vendor = "and" -> ("GRAINS" :> Dec(2, 2)) @@ ("GRAMS" :> Dec(1, 4))
      [] vendor = "creedmoor" -> ("GRAINS" :> Dec(1, 2)) @@ ("GRAMS" :> Dec(1, 4))
      [] vendor = "ussolid" -> ("GRAINS" :> Dec(1, 3)) @@ ("GRAMS" :> Dec(1, 3))

ScaleKeyNames == {"scale_status", "scale_weight", "scale_unit",
                  "scale_resolution", "scale_is_stable"}
ScaleStore == [k \in KeyNames \cup ScaleKeyNames |-> None]

\* SerialScale.__init__ after the port opened: the default reading and an
\* empty window of stable_reading_length lines.
ScaleNew(vendor, maxlen) ==
    [vendor |-> vendor, unit |-> "GRAINS",
     resolution |-> resolution_map(vendor)["GRAINS"],
     weight |-> Dec(0, 2), status |-> "STABLE",
     readings |-> <<>>, maxlen |-> maxlen]

\* A step of a handler: the controller, the store, and whether it raised.
Step(s, store, raised) == [scale |-> s, store |-> store, raised |-> raised]

_update_memcache(s, store) ==
    [store EXCEPT !["scale_status"] = Some(s.status),
                  !["scale_weight"] = Some(s.weight),
                  !["scale_unit"] = Some(s.unit),
                  !["scale_resolution"] = Some(s.resolution),
                  !["scale_is_stable"] = Some(s.status = "STABLE")]

\* collections.deque(maxlen=n).append
Append_deque(readings, maxlen, line) ==
    LET all == Append(readings, line)
    IN  IF maxlen = 0 THEN <<>>
        ELSE IF Len(all) > maxlen THEN Tail(all) ELSE all

_check_stability(s) ==
    IF Len(s.readings) = s.maxlen
       /\ Cardinality({s.readings[i] : i \in 1 .. Len(s.readings)}) = 1
    THEN [s EXCEPT !.status = "STABLE"]
    ELSE [s EXCEPT !.status = "UNSTABLE"]

\* The tail shared by the three _stable_unstable methods: the weight is
\* assigned before the unit is looked up, and the store is written last.
store_reading(s, store, weight_str, unit_str) ==
    LET w == Decimal(weight_str)
        units == unit_map(s.vendor)
    IN  IF w = None THEN Step(s, store, TRUE)
        ELSE LET s1 == [s EXCEPT !.weight = w[1]]
             IN  IF unit_str \notin DOMAIN units THEN Step(s1, store, TRUE)
                 ELSE LET s2 == [s1 EXCEPT !.unit = units[unit_str],
                                          !.resolution =
                                              resolution_map(s.vendor)[units[unit_str]]]
                      IN  Step(s2, _update_memcache(s2, store), FALSE)

and_stable_unstable(s, store, line) ==
    store_reading(s, store, Strip(Slice(line, 3, 12)), Strip(Slice(line, 12, 15)))

creedmoor_stable_unstable(s, store, line) ==
    LET s1 == _check_stability(
                  [s EXCEPT !.readings = Append_deque(s.readings, s.maxlen, line)])
    IN  store_reading(s1, store, Slice(line, 0, 8), Slice(line, 9, 11))

ussolid_stable_unstable(s, store, line) ==
    LET s1 == _check_stability(
                  [s EXCEPT !.readings = Append_deque(s.readings, s.maxlen, line)])
    IN  store_reading(s1, store, RemoveSpaces(Slice(line, 0, 9)),
                      Strip(Slice(line, 9, 11)))

\* ANDScale: the status each two-character prefix stands for.
and_status ==
    (<<"S", "T">> :> "STABLE") @@ (<<"U", "S">> :> "UNSTABLE")
    @@ (<<"O", "L">> :> "OVERLOAD") @@ (<<"E", "C">> :> "ERROR")
    @@ (<<"A", "K">> :> "ACKNOWLEDGE") @@ (<<"T", "N">> :> "MODEL_NUMBER")
    @@ (<<"S", "N">> :> "SERIAL_NUMBER")

and_status_line_zero_weight(s, store) ==
    LET s1 == [s EXCEPT !.weight = Dec(0, 2)]
    IN  Step(s1, _update_memcache(s1, store), FALSE)

\* _overload, _error, _acknowledge, after the status is set
and_status_line(s, store) == Step(s, _update_memcache(s, store), FALSE)

and_handle(s, store, line) ==
    LET prefix == Slice(line, 0, 2)
    IN  IF prefix \notin DOMAIN and_status THEN Step(s, store, FALSE)
        ELSE LET s1 == [s EXCEPT !.status = and_status[prefix]]
             IN  CASE and_status[prefix] \in {"STABLE", "UNSTABLE"} ->
                          and_stable_unstable(s1, store, line)
                   [] and_status[prefix] \in {"OVERLOAD", "ERROR", "ACKNOWLEDGE"} ->
                          and_status_line(s1, store)
                   [] OTHER -> Step(s1, store, FALSE)

sign_handle(s, store, line) ==
    IF Slice(line, 0, 1) \in {<<"+">>, <<"-">>}
    THEN IF s.vendor = "creedmoor"
         THEN creedmoor_stable_unstable(s, store, line)
         ELSE ussolid_stable_unstable(s, store, line)
    ELSE Step(s, store, FALSE)

\* update(): raw is what readline() returned, with whether it is valid UTF-8.
vendor_update(s, store, raw) ==
    IF ~raw.utf8 THEN Step(s, store, FALSE)
    ELSE IF s.vendor = "and" THEN and_handle(s, store, Strip(raw.bytes))
    ELSE sign_handle(s, store, RStrip(raw.bytes, {"\r", "\n"}))

-----------------------------------------------------------------------------
(* What a scale sends: the lines the decoders above are written for.       *)

CRLF == <<"\r", "\n">>

RECURSIVE Pow10(_)
Pow10(e) == IF e = 0 THEN 1 ELSE 10 * Pow10(e - 1)

Abs(n) == IF n < 0 THEN 0 - n ELSE n

\* n written with exactly width digits
RECURSIVE IntDigits(_, _)
IntDigits(n, width) ==
    IF width = 0 THEN <<>>
    ELSE Append(IntDigits(n \div 10, width - 1), DigitChars[(n % 10) + 1])

SignChar(d) == IF d.coef < 0 THEN "-" ELSE "+"

\* the magnitude of d as a fixed-point numeral of width characters
Numeral(d, width) ==
    IntDigits(Abs(d.coef) \div Pow10(d.exp), width - d.exp - 1)
    \o <<".">> \o IntDigits(Abs(d.coef) % Pow10(d.exp), d.exp)

\* the numeral with the leading zeros of its integer part blanked
RECURSIVE BlankZeros(_)
BlankZeros(s) ==
    IF Len(s) >= 2 /\ s[1] = "0" /\ s[2] # "."
    THEN <<" ">> \o BlankZeros(Tail(s))
    ELSE s

\* The unit token each vendor's scale prints (the keys of its unit_map).
UnitToken(vendor, unit) ==
    CHOOSE t \in DOMAIN unit_map(vendor) : unit_map(vendor)[t] = unit

RECURSIVE PadLeft(_, _)
PadLeft(s, width) == IF Len(s) >= width THEN s ELSE PadLeft(<<" ">> \o s, width)
RECURSIVE PadRight(_, _)
PadRight(s, width) == IF Len(s) >= width THEN s ELSE PadRight(s \o <<" ">>, width)

\* A&D: header, comma, sign and eight characters, unit right-aligned in three.
and_line(header, d, unit) ==
    header \o <<",", SignChar(d)>> \o Numeral(d, 8)
    \o PadLeft(UnitToken("and", unit), 3) \o CRLF

\* Creedmoor: sign and seven characters, a space, the unit token.
creedmoor_line(d, unit) ==
    <<SignChar(d)>> \o Numeral(d, 7) \o <<" ">>
    \o UnitToken("creedmoor", unit) \o CRLF

\* U.S. Solid: sign, the number right-aligned in eight, the unit in two.
ussolid_line(d, unit) ==
    <<SignChar(d)>> \o BlankZeros(Numeral(d, 8))
    \o PadRight(UnitToken("ussolid", unit), 2) \o CRLF

Coefs == {0 - 5, 0, 1038}

\* One read of the serial port: the bytes, whether they are valid UTF-8,
\* and for the record what the scale meant by them.
Read(kind, utf8, bytes, header, weight, unit) ==
    [kind |-> kind, raw |-> [utf8 |-> utf8, bytes |-> bytes],
     header |-> header, weight |-> weight, unit |-> unit]

Other(kind, utf8, bytes) == Read(kind, utf8, bytes, <<>>, None, None)

Values(vendor, unit) == {Dec(c, resolution_map(vendor)[unit].exp) : c \in Coefs}

ReadingReads(vendor) ==
    IF vendor = "and"
    THEN {Read("reading", TRUE, and_line(h, r[1], r[2]), h, Some(r[1]), Some(r[2])) :
              h \in {<<"S", "T">>, <<"U", "S">>},
              r \in UNION {Values(vendor, u) \X {u} : u \in Units}}
    ELSE IF vendor = "creedmoor"
    THEN {Read("reading", TRUE, creedmoor_line(r[1], r[2]), <<SignChar(r[1])>>,
               Some(r[1]), Some(r[2])) :
              r \in UNION {Values(vendor, u) \X {u} : u \in Units}}
    ELSE {Read("reading", TRUE, ussolid_line(r[1], r[2]), <<SignChar(r[1])>>,
               Some(r[1]), Some(r[2])) :
              r \in UNION {Values(vendor, u) \X {u} : u \in Units}}

StatusReads(vendor) ==
    IF vendor = "and"
    THEN {Read("status", TRUE, h \o CRLF, h, None, None) :
              h \in {<<"O", "L">>, <<"E", "C">>, <<"A", "K">>}}
         \cup {Read("status", TRUE, h \o <<",", "1">> \o CRLF, h, None, None) :
              h \in {<<"T", "N">>, <<"S", "N">>}}
    ELSE {}

\* Lines a decoder has no use for.
MalformedReads(vendor) ==
    {Other("timeout", TRUE, <<>>), Other("not_utf8", FALSE, <<"\r", "\n">>)}
    \cup
    IF vendor = "and"
    THEN {Other("unknown_prefix", TRUE, <<"Q", "T", ",", "+", "0">> \o CRLF),
          Other("truncated", TRUE, <<"S", "T", ",">>),
          Other("truncated", TRUE, <<"S", "T", ",", "+", "0", "0", "0", "1">>),
          Other("bad_weight", TRUE,
                <<"S", "T", ",", "+", "0", "0", "0", "1", "x", ".", "3", "8",
                  " ", "G", "N">> \o CRLF),
          Other("bad_unit", TRUE,
                <<"U", "S", ",", "+", "0", "0", "0", "1", "0", ".", "3", "8",
                  " ", "o", "z">> \o CRLF)}
    ELSE IF vendor = "creedmoor"
    THEN {Other("unknown_prefix", TRUE, <<"E", "r", "r">> \o CRLF),
          Other("truncated", TRUE, <<"+", "0", "1">>),
          Other("bad_weight", TRUE,
                <<"+", "0", "1", "x", ".", "3", "8", "0", " ", "G", "N">> \o CRLF),
          Other("bad_unit", TRUE,
                <<"-", "0", "1", "0", ".", "3", "8", "0", " ", "o", "z">> \o CRLF)}
    ELSE {Other("unknown_prefix", TRUE, <<"E", "r", "r">> \o CRLF),
          Other("truncated", TRUE, <<"+", " ", " ", "1">>),
          Other("bad_weight", TRUE,
                <<"+", " ", " ", " ", "1", "x", ".", "3", "8", "g", "n">> \o CRLF),
          Other("bad_unit", TRUE,
                <<"-", " ", " ", "1", "0", ".", "3", "8", "0", "o", "z">> \o CRLF)}

Reads(vendor) == ReadingReads(vendor) \cup StatusReads(vendor) \cup MalformedReads(vendor)

\* the reads of each vendor, tabulated
ReadsOf == [vendor \in Vendors |-> Reads(vendor)]

\* stable_reading_length of the configuration
WindowLen == 2

ScaleRan(s) == s # Idle

InitScale ==
    /\ mc = ScaleStore
    /\ pc = "scale_api"
    /\ auto_mode = None
    /\ target_weight = None
    /\ target_unit = None
    /\ scale = ScaleDefault
    /\ pid = PidNew
    /\ motor = MotorFromConfig
    /\ pwm = PwmInit
    /\ exitCause = "none"
    /\ drove = FALSE
    /\ serialOut = "none"
    /\ shutdownRuns = 0
    /\ termCause = "none"
    /\ lastCall = NoCall
    /\ serial = "open"
    /\ \E vendor \in Vendors : sc = ScaleNew(vendor, WindowLen)
    /\ scLast = Idle
    /\ hw = Idle
    /\ rest = Idle
    /\ wlog = {}
    /\ led = Idle
    /\ ble = Idle
    /\ asked = {}
    /\ twin = Idle

\* scale.update() reads one line.  An exception leaves update() and ends the
\* process that called it.
ScaleUpdate ==
    /\ pc = "scale_api"
    /\ \E r \in ReadsOf[sc.vendor] :
          LET st == vendor_update(sc, mc, r.raw)
          IN  /\ sc' = st.scale
              /\ mc' = st.store
              /\ scLast' = [op |-> "update", read |-> r, raised |-> st.raised,
                            pre |-> sc, pre_mc |-> mc]
              /\ pc' = IF st.raised THEN "scale_raised" ELSE "scale_api"
    /\ UNCHANGED <<auto_mode, target_weight, target_unit, scale, pid, motor, pwm,
                   exitCause, drove, serialOut, shutdownRuns, termCause,
                   lastCall, serial, hw, rest>>
    /\ UNCHANGED peripheralVars

NextScale == ScaleUpdate

ScaleSpec == InitScale /\ [][NextScale]_vars

-----------------------------------------------------------------------------
(* Unit reconciliation: main() from the initial set_multi to the unit check *)
(* of the outer loop, against a scale that honours every unit command.      *)

\* A stored unit is a member of SerialScale.Units or a plain string.
UnitsMember(name) == [kind |-> "Units", name |-> name]
StrValue(str) == [kind |-> "str", name |-> str]

\* argparse: --target_unit choices=('g', 'GN'), default 'GN'
TargetUnitArgs == {<<"g">>, <<"G", "N">>}

\* scale.unit_map.get(args.target_unit, 'GN')
TargetUnitAtStart(vendor, arg) ==
    IF arg \in DOMAIN unit_map(vendor)
    THEN UnitsMember(unit_map(vendor)[arg])
    ELSE StrValue("GN")

\* the unit a command-line target unit asks for
ArgUnit(arg) == IF arg = <<"g">> THEN "GRAMS" ELSE "GRAINS"

OtherUnit(unit) == IF unit = "GRAINS" THEN "GRAMS" ELSE "GRAINS"

\* the line the physical scale sends for what it displays
HwLine(vendor, unit, coef) ==
    LET d == Dec(coef, resolution_map(vendor)[unit].exp)
    IN  CASE vendor = "and" -> and_line(<<"S", "T">>, d, unit)
          [] vendor = "creedmoor" -> creedmoor_line(d, unit)
          [] vendor = "ussolid" -> ussolid_line(d, unit)

\* the reads of a valid line, tabulated
HwReads ==
    [vendor \in Vendors, unit \in Units, coef \in Coefs |->
        [utf8 |-> TRUE, bytes |-> HwLine(vendor, unit, coef)]]

\* the scale steps to its other unit on the command U
HwToggle(h) == [h EXCEPT !.unit = OtherUnit(h.unit)]

\* change_unit(): write U, wait, update()
change_unit(s, store, h) ==
    LET st == vendor_update(s, store, HwReads[s.vendor, OtherUnit(h.unit), h.coef])
    IN  [scale |-> st.scale, store |-> st.store, raised |-> st.raised,
         hw |-> HwToggle(h)]

MaxIters == 3

InitUnit ==
    /\ mc = ScaleStore
    /\ pc = "unit_start"
    /\ auto_mode = None
    /\ target_weight = None
    /\ target_unit = None
    /\ scale = ScaleDefault
    /\ pid = PidNew
    /\ motor = MotorFromConfig
    /\ pwm = PwmInit
    /\ exitCause = "none"
    /\ drove = FALSE
    /\ serialOut = "none"
    /\ shutdownRuns = 0
    /\ termCause = "none"
    /\ lastCall = NoCall
    /\ serial = "open"
    /\ \E vendor \in Vendors : sc = ScaleNew(vendor, WindowLen)
    /\ scLast = Idle
    /\ \E u \in Units, c \in Coefs, a \in TargetUnitArgs :
          hw = [unit |-> u, coef |-> c, arg |-> a, iters |-> 0,
                agreed |-> FALSE, issued |-> FALSE, streak |-> 0]
    /\ rest = Idle
    /\ wlog = {}
    /\ led = Idle
    /\ ble = Idle
    /\ asked = {}
    /\ twin = Idle

\* main(): the initial values written to the store
UnitStart ==
    /\ pc = "unit_start"
    /\ mc' = [mc EXCEPT !["auto_mode"] = Some(FALSE),
                        !["target_weight"] = Some(0),
                        !["target_unit"] = Some(TargetUnitAtStart(sc.vendor, hw.arg))]
    /\ pc' = "unit_loop"
    /\ UNCHANGED <<auto_mode, target_weight, target_unit, scale, pid, motor, pwm,
                   exitCause, drove, serialOut, shutdownRuns, termCause,
                   lastCall, serial, sc, scLast, hw, rest>>
    /\ UNCHANGED peripheralVars

\* The outer loop reads the target unit and updates the scale.
UnitScale ==
    /\ pc = "unit_loop"
    /\ hw.iters < MaxIters
    /\ target_unit' = McGet(mc, TARGET_UNIT)
    /\ LET st == vendor_update(sc, mc, HwReads[sc.vendor, hw.unit, hw.coef])
       IN  /\ sc' = st.scale
           /\ mc' = st.store
    /\ serialOut' = "none"
    /\ pc' = "unit_check"
    /\ UNCHANGED <<auto_mode, target_weight, scale, pid, motor, pwm,
                   exitCause, drove, shutdownRuns, termCause,
                   lastCall, serial, scLast, hw, rest>>
    /\ UNCHANGED peripheralVars

\* The unit check of the outer loop: change the unit if the two differ.
UnitCheck ==
    /\ pc = "unit_check"
    /\ IF target_unit # Some(UnitsMember(sc.unit))
       THEN LET ch == change_unit(sc, mc, hw)
            IN  /\ sc' = ch.scale
                /\ mc' = ch.store
                /\ serialOut' = "U"
                /\ hw' = [ch.hw EXCEPT !.iters = hw.iters + 1,
                                       !.agreed = hw.unit = ArgUnit(hw.arg),
                                       !.issued = TRUE,
                                       !.streak = hw.streak + 1]
       ELSE /\ hw' = [hw EXCEPT !.iters = hw.iters + 1,
                                !.agreed = hw.unit = ArgUnit(hw.arg),
                                !.issued = FALSE,
                                !.streak = 0]
            /\ UNCHANGED <<sc, mc, serialOut>>
    /\ pc' = "unit_loop"
    /\ UNCHANGED <<auto_mode, target_weight, target_unit, scale, pid, motor, pwm,
                   exitCause, drove, shutdownRuns, termCause,
                   lastCall, serial, scLast, rest>>
    /\ UNCHANGED peripheralVars

NextUnit ==
    \/ UnitStart
    \/ UnitScale
    \/ UnitCheck

UnitSpec == InitUnit /\ [][NextUnit]_vars

-----------------------------------------------------------------------------
(* change_unit() statement by statement, inside the outer loop of main(),   *)
(* against a scale that shows its other unit once the settle interval has   *)
(* passed since the command.                                                *)

\* time.sleep(1) in change_unit, in seconds
SettleInterval == 1

\* the statements of change_unit, in the order of the source
change_unit_update_first == <<"write", "update", "sleep">>
change_unit_body == <<"write", "sleep", "update">>

\* --target_weight (default 0) and --auto_mode of the command line
TargetWeightArgs == {0, 11}

\* the arm condition of main() on the scale controller's reading
arm_preconditions(s, tw, tu, am) ==
    /\ s.weight.coef >= 0
    /\ tw # None /\ s.weight.coef < tw[1] * Pow10(s.weight.exp)
    /\ Some(UnitsMember(s.unit)) = tu
    /\ s.status = "STABLE"
    /\ Truthy(am)

NoCommand == [at |-> 0 - 1, pending |-> FALSE, pre |-> Idle, log |-> <<>>,
              ip |-> 1]

InitChange ==
    /\ mc = ScaleStore
    /\ pc = "cu_start"
    /\ auto_mode = None
    /\ target_weight = None
    /\ target_unit = None
    /\ scale = ScaleDefault
    /\ pid = PidNew
    /\ motor = MotorFromConfig
    /\ pwm = PwmInit
    /\ exitCause = "none"
    /\ drove = FALSE
    /\ serialOut = "none"
    /\ shutdownRuns = 0
    /\ termCause = "none"
    /\ lastCall = NoCall
    /\ serial = "open"
    /\ \E vendor \in Vendors : sc = ScaleNew(vendor, WindowLen)
    /\ scLast = Idle
    /\ \E u \in Units, c \in Coefs, a \in TargetUnitArgs :
          hw = [unit |-> u, coef |-> c, arg |-> a, iters |-> 0, clock |-> 0,
                cmd |-> NoCommand, seen |-> Idle, armed |-> FALSE]
    /\ rest = Idle
    /\ wlog = {}
    /\ led = Idle
    /\ ble = Idle
    /\ asked = {}
    /\ twin = Idle

ChangeFrame ==
    /\ UNCHANGED <<scale, pid, motor, pwm, exitCause, drove, shutdownRuns,
                   termCause, lastCall, serial, scLast, rest>>
    /\ UNCHANGED peripheralVars

\* main(): the initial values written to the store
CuStart ==
    /\ pc = "cu_start"
    /\ \E am \in BOOLEAN, tw \in TargetWeightArgs :
          mc' = [mc EXCEPT !["auto_mode"] = Some(am),
                           !["target_weight"] = Some(tw),
                           !["target_unit"] =
                               Some(TargetUnitAtStart(sc.vendor, hw.arg))]
    /\ pc' = "cu_loop"
    /\ UNCHANGED <<auto_mode, target_weight, target_unit, serialOut, sc, hw>>
    /\ ChangeFrame

\* The outer loop reads the settings and updates the scale.
CuScale ==
    /\ pc = "cu_loop"
    /\ hw.iters < MaxIters
    /\ auto_mode' = McGet(mc, AUTO_MODE)
    /\ target_weight' = McGet(mc, TARGET_WEIGHT)
    /\ target_unit' = McGet(mc, TARGET_UNIT)
    /\ LET st == vendor_update(sc, mc, HwReads[sc.vendor, hw.unit, hw.coef])
       IN  /\ sc' = st.scale
           /\ mc' = st.store
    /\ serialOut' = "none"
    /\ hw' = [hw EXCEPT !.iters = hw.iters + 1, !.cmd = NoCommand,
                        !.seen = Idle, !.armed = FALSE]
    /\ pc' = "cu_unit"
    /\ ChangeFrame

\* if target_unit != scale.unit: scale.change_unit()
CuUnitCheck ==
    /\ pc = "cu_unit"
    /\ IF target_unit # Some(UnitsMember(sc.unit))
       THEN /\ pc' = "change_unit"
            /\ hw' = [hw EXCEPT !.cmd.pre = sc]
       ELSE /\ pc' = "cu_arm"
            /\ hw' = hw
    /\ UNCHANGED <<auto_mode, target_weight, target_unit, serialOut, sc, mc>>
    /\ ChangeFrame

\* One statement of change_unit.
CuStep ==
    /\ pc = "change_unit"
    /\ LET stmt == change_unit_body[hw.cmd.ip]
           logged == [hw EXCEPT !.cmd.log = Append(hw.cmd.log, <<stmt, hw.clock>>),
                                !.cmd.ip = hw.cmd.ip + 1]
       IN  CASE stmt = "write" ->
                  /\ serialOut' = "U"
                  /\ hw' = [logged EXCEPT !.cmd.at = hw.clock,
                                          !.cmd.pending = TRUE]
                  /\ UNCHANGED <<sc, mc>>
             [] stmt = "sleep" ->
                  /\ hw' = IF hw.cmd.pending
                           THEN [logged EXCEPT !.clock = hw.clock + SettleInterval,
                                               !.unit = OtherUnit(hw.unit),
                                               !.cmd.pending = FALSE]
                           ELSE [logged EXCEPT !.clock = hw.clock + SettleInterval]
                  /\ UNCHANGED <<sc, mc, serialOut>>
             [] stmt = "update" ->
                  LET st == vendor_update(sc, mc,
                                          HwReads[sc.vendor, hw.unit, hw.coef])
                  IN  /\ sc' = st.scale
                      /\ mc' = st.store
                      /\ hw' = logged
                      /\ UNCHANGED serialOut
    /\ pc' = IF hw.cmd.ip = Len(change_unit_body) THEN "cu_arm" ELSE "change_unit"
    /\ UNCHANGED <<auto_mode, target_weight, target_unit>>
    /\ ChangeFrame

\* The arm condition is evaluated on the controller's reading.
CuArmCheck ==
    /\ pc = "cu_arm"
    /\ hw' = [hw EXCEPT !.seen = sc,
                        !.armed = arm_preconditions(sc, target_weight,
                                                    target_unit, auto_mode)]
    /\ pc' = IF arm_preconditions(sc, target_weight, target_unit, auto_mode)
             THEN "cu_armed" ELSE "cu_loop"
    /\ UNCHANGED <<auto_mode, target_weight, target_unit, serialOut, sc, mc>>
    /\ ChangeFrame

NextChange ==
    \/ CuStart
    \/ CuScale
    \/ CuUnitCheck
    \/ CuStep
    \/ CuArmCheck

ChangeSpec == InitChange /\ [][NextChange]_vars

-----------------------------------------------------------------------------
(* The settings API: controllers/default_controller.py                      *)

\* The names bound in the module: connexion, enum, six, Dict, Tuple, Union,
\* pymemcache, Setting, util, get_mc_client, MC_CLIENT, AUTO_MODE, TARGET_UNIT,
\* TARGET_WEIGHT, Units, UNIT_MAP, get_settings, update_settings.  The name
\* memcache is not among them: evaluating it raises NameError.
memcache_bound == TRUE
memcache_defined == FALSE

\* a member of the controller's own Units enumeration
RestUnit(name) == [kind |-> "rest.Units", name |-> name]

UNIT_MAP == ("GN" :> RestUnit("GRAINS")) @@ ("g" :> RestUnit("GRAMS"))

\* setting.auto_mode or old
OrBool(v, old) == IF v = Some(TRUE) THEN v ELSE old

\* setting.target_weight or old: None and the number 0 are falsy, a non-empty
\* string is truthy
OrJson(v, old) == IF v # None /\ v[1] # Num(0) THEN v ELSE old

\* UNIT_MAP.get(setting.target_unit, old)
UnitMapGet(v, old) ==
    IF v # None /\ v[1] \in DOMAIN UNIT_MAP THEN Some(UNIT_MAP[v[1]]) ELSE old

SettingsOf(store) ==
    [auto_mode |-> McGet(store, AUTO_MODE),
     target_unit |-> McGet(store, TARGET_UNIT),
     target_weight |-> McGet(store, TARGET_WEIGHT)]

Reply(store, raised, response) ==
    [store |-> store, raised |-> raised, response |-> response]

get_settings_swapped(store) ==
    Reply(store, FALSE,
          Some([auto_mode |-> McGet(store, AUTO_MODE),
                target_unit |-> McGet(store, TARGET_WEIGHT),
                target_weight |-> McGet(store, TARGET_UNIT)]))

get_settings(store) == Reply(store, FALSE, Some(SettingsOf(store)))

\* The HTTP status connexion answers with: 200 with the handler's return value
\* as the body, 500 when the handler raised.
http_status(reply) == IF reply.raised THEN 500 ELSE 200

update_settings_replace(store, req) ==
    LET s3 == [store EXCEPT !["auto_mode"] = req.auto_mode,
                            !["target_weight"] = req.target_weight,
                            !["target_unit"] = UnitMapGet(req.target_unit, None)]
    IN  Reply(s3, FALSE, Some(SettingsOf(s3)))

update_settings(store, req) ==
    IF ~memcache_defined THEN Reply(store, TRUE, None)
    ELSE LET s1 == McSet(store, AUTO_MODE,
                         OrBool(req.auto_mode, McGet(store, AUTO_MODE))).store
             s2 == McSet(s1, TARGET_WEIGHT,
                         OrJson(req.target_weight, McGet(s1, TARGET_WEIGHT))).store
             s3 == McSet(s2, TARGET_UNIT,
                         UnitMapGet(req.target_unit, McGet(s2, TARGET_UNIT))).store
         IN  Reply(s3, FALSE, Some(SettingsOf(s3)))

\* The body of a PUT /settings: each field absent (None) or given.
Requests ==
    [auto_mode : {None, Some(TRUE), Some(FALSE)},
     target_weight : {None, Some(Num(0)), Some(Num(MaxTarget)),
                      Some(Str(0)), Some(Str(MaxTarget))},
     target_unit : {None, Some("GN"), Some("g"), Some("oz")}]

NoRequest == [auto_mode |-> None, target_weight |-> None, target_unit |-> None]

\* What the other writers may have left in the store.
SettingsStores ==
    {[EmptyStore EXCEPT !["auto_mode"] = a,
                        !["target_weight"] = w,
                        !["target_unit"] = u] :
        a \in {None, Some(TRUE), Some(FALSE)},
        w \in {None, Some(Num(0)), Some(Num(MaxTarget))},
        u \in {None, Some(UnitsMember("GRAINS")), Some(UnitsMember("GRAMS"))}}

InitApi ==
    /\ mc \in SettingsStores
    /\ pc = "rest_api"
    /\ auto_mode = None
    /\ target_weight = None
    /\ target_unit = None
    /\ scale = ScaleDefault
    /\ pid = PidNew
    /\ motor = MotorFromConfig
    /\ pwm = PwmInit
    /\ exitCause = "none"
    /\ drove = FALSE
    /\ serialOut = "none"
    /\ shutdownRuns = 0
    /\ termCause = "none"
    /\ lastCall = NoCall
    /\ serial = "unopened"
    /\ sc = Idle
    /\ scLast = Idle
    /\ hw = Idle
    /\ rest = [op |-> "none", req |-> NoRequest, raised |-> FALSE,
               response |-> None, http |-> 0, pre_mc |-> mc]
    /\ wlog = {}
    /\ led = Idle
    /\ ble = Idle
    /\ asked = {}
    /\ twin = Idle

Served(op, req, reply) ==
    /\ pc = "rest_api"
    /\ mc' = reply.store
    /\ rest' = [op |-> op, req |-> req, raised |-> reply.raised,
                response |-> reply.response, http |-> http_status(reply),
                pre_mc |-> mc]
    /\ UNCHANGED <<pc, auto_mode, target_weight, target_unit, scale, pid, motor,
                   pwm, exitCause, drove, serialOut, shutdownRuns, termCause,
                   lastCall, serial, sc, scLast, hw>>
    /\ UNCHANGED peripheralVars

GetSettings == Served("get_settings", NoRequest, get_settings(mc))

UpdateSettings ==
    \E req \in Requests : Served("update_settings", req, update_settings(mc, req))

NextApi ==
    \/ GetSettings
    \/ UpdateSettings

ApiSpec == InitApi /\ [][NextApi]_vars

-----------------------------------------------------------------------------
(* The Bluetooth characteristics of ble_v1.py and the converters of        *)
(* helpers.py.  A bytes value is a sequence of byte values for the         *)
(* one-byte encodings and a sequence of characters for the text encodings. *)

UnitValue == ("GRAINS" :> 0) @@ ("GRAMS" :> 1)
StatusValue ==
    ("STABLE" :> 0) @@ ("UNSTABLE" :> 1) @@ ("OVERLOAD" :> 2) @@ ("ERROR" :> 3)
    @@ ("MODEL_NUMBER" :> 4) @@ ("SERIAL_NUMBER" :> 5) @@ ("ACKNOWLEDGE" :> 6)

\* a == b for two decimal.Decimal values: the numbers are compared, so
\* 1.0 == 1.00
DecEq(a, b) == a.coef * Pow10(b.exp) = b.coef * Pow10(a.exp)

\* n >= 0 written without leading zeros
RECURSIVE NatDigits(_)
NatDigits(n) ==
    IF n < 10 THEN <<DigitChars[n + 1]>>
    ELSE Append(NatDigits(n \div 10), DigitChars[(n % 10) + 1])

\* str(decimal.Decimal): the sign, the integer part and every fraction digit
DecStr(d) ==
    (IF d.coef < 0 THEN <<"-">> ELSE <<>>)
    \o NatDigits(Abs(d.coef) \div Pow10(d.exp))
    \o (IF d.exp = 0 THEN <<>>
        ELSE <<".">> \o IntDigits(Abs(d.coef) % Pow10(d.exp), d.exp))

\* The result of a converter: the bytes, or that it raised.
Enc(data) == [raised |-> FALSE, data |-> data]
EncRaised == [raised |-> TRUE, data |-> <<>>]

\* struct.pack_into("<B", ...) of None raises struct.error.
bool_to_bytes(v) ==
    IF v = None THEN EncRaised ELSE Enc(<<IF v[1] THEN 1 ELSE 0>>)

bytes_to_bool(data) == data[1] # 0

\* None has no attribute value: AttributeError.
enum_to_bytes(values, v) ==
    IF v = None THEN EncRaised ELSE Enc(<<values[v[1]]>>)

\* enum_cls(value): the member with that value, None for ValueError.
bytes_to_enum(values, data) ==
    IF \E n \in DOMAIN values : values[n] = data[1]
    THEN Some(CHOOSE n \in DOMAIN values : values[n] = data[1])
    ELSE None

\* str(None) is 'None': the text converter never raises.
decimal_to_bytes(v) ==
    IF v = None THEN Enc(<<"N", "o", "n", "e">>) ELSE Enc(DecStr(v[1]))

bytes_to_decimal(data) == Decimal(data)

\* The characteristics in the order TricklerService lists them.
Chars == <<"AutoMode", "ScaleStatus", "ScaleUnit", "ScaleWeight", "TargetWeight">>
CharNames == {Chars[i] : i \in 1 .. Len(Chars)}

mc_key ==
    [AutoMode |-> "auto_mode", ScaleStatus |-> "scale_status",
     ScaleUnit |-> "scale_unit", ScaleWeight |-> "scale_weight",
     TargetWeight |-> "target_weight"]

\* BasicCharacteristic.__init__: the value mc_value reads is the attribute
\* of the base class, which the subclasses' constructors do not assign (their
\* self.__value is a different, name-mangled attribute), and no callback.
CharNew == [cached |-> None, subscribed |-> FALSE]

_send_fn(name, v) ==
    CASE name = "AutoMode" -> bool_to_bytes(v)
      [] name = "ScaleStatus" -> enum_to_bytes(StatusValue, v)
      [] name = "ScaleUnit" -> enum_to_bytes(UnitValue, v)
      [] name \in {"ScaleWeight", "TargetWeight"} -> decimal_to_bytes(v)

\* value == self.__value
PyEq(name, a, b) ==
    IF a = None \/ b = None THEN a = b
    ELSE IF name \in {"ScaleWeight", "TargetWeight"} THEN DecEq(a[1], b[1])
    ELSE a = b

Notified(c, sent, raised) == [char |-> c, sent |-> sent, raised |-> raised]

mc_value_set_always(c, name, value) ==
    LET e == _send_fn(name, value)
        c2 == [c EXCEPT !.cached = value]
    IN  IF ~c.subscribed THEN Notified(c2, <<>>, FALSE)
        ELSE IF e.raised THEN Notified(c2, <<>>, TRUE)
        ELSE Notified(c2, <<e.data>>, FALSE)

\* The mc_value setter: nothing when the value equals the cached one;
\* otherwise the cache is assigned first and the subscriber's callback gets
\* the encoding of the new value.
mc_value_set(c, name, value) ==
    IF PyEq(name, value, c.cached) THEN Notified(c, <<>>, FALSE)
    ELSE LET e == _send_fn(name, value)
             c2 == [c EXCEPT !.cached = value]
         IN  IF ~c.subscribed THEN Notified(c2, <<>>, FALSE)
             ELSE IF e.raised THEN Notified(c2, <<>>, TRUE)
             ELSE Notified(c2, <<e.data>>, FALSE)

mc_get(store, name) == McGet(store, StrKey(mc_key[name]))

mc_update(c, store, name) == mc_value_set(c, name, mc_get(store, name))

\* The outcome of onWriteRequest: the characteristic, the store, what the
\* subscriber was sent, the result passed to callback (none when the handler
\* raised before calling it), and whether memcache.set was called.
Written(c, store, sent, result, raised, tried) ==
    [char |-> c, store |-> store, sent |-> sent, result |-> result,
     raised |-> raised, tried |-> tried]

AutoMode_onWriteRequest(c, store, data, offset) ==
    IF offset # 0 THEN Written(c, store, <<>>, "RESULT_ATTR_NOT_LONG", FALSE, FALSE)
    ELSE IF Len(data) # 1
    THEN Written(c, store, <<>>, "RESULT_INVALID_ATTRIBUTE_LENGTH", FALSE, FALSE)
    ELSE LET value == Some(bytes_to_bool(data))
             st == McSet(store, AUTO_MODE, value)
             n == mc_value_set(c, "AutoMode", value)
         IN  Written(n.char, st.store, n.sent, "RESULT_SUCCESS", FALSE, TRUE)

TargetWeight_onWriteRequest(c, store, data, offset) ==
    IF offset # 0 THEN Written(c, store, <<>>, "RESULT_ATTR_NOT_LONG", FALSE, FALSE)
    ELSE IF Len(data) = 0
    THEN Written(c, store, <<>>, "RESULT_INVALID_ATTRIBUTE_LENGTH", FALSE, FALSE)
    ELSE LET value == bytes_to_decimal(data)
             st == McSet(store, TARGET_WEIGHT, value)
             n == mc_value_set(c, "TargetWeight", value)
         IN  IF value = None THEN Written(c, store, <<>>, "none", TRUE, FALSE)
             ELSE Written(n.char, st.store, n.sent, "RESULT_SUCCESS", FALSE, TRUE)

\* pickle stores a class by its module and name.  The units enum of the
\* Bluetooth process is made by enum.Enum('scale_units', ...) inside a
\* constructor and bound to no module attribute, so dumping one of its
\* members raises PicklingError; the classes of scales.py are found by name.
picklable(cls) == cls \in {"Units", "StatusMap"}

\* ScaleUnit.onWriteRequest writes the target unit, not its own key, and
\* passes the request's bytes to the subscriber without the setter.
ScaleUnit_onWriteRequest(c, store, data, offset) ==
    IF offset # 0 THEN Written(c, store, <<>>, "RESULT_ATTR_NOT_LONG", FALSE, FALSE)
    ELSE IF Len(data) # 1
    THEN Written(c, store, <<>>, "RESULT_INVALID_ATTRIBUTE_LENGTH", FALSE, FALSE)
    ELSE LET value == bytes_to_enum(UnitValue, data)
         IN  IF value = None THEN Written(c, store, <<>>, "none", TRUE, FALSE)
             ELSE IF ~picklable("scale_units")
             THEN Written(c, store, <<>>, "none", TRUE, TRUE)
             ELSE Written(c,
                          McSet(store, TARGET_UNIT,
                                Some([kind |-> "scale_units", name |-> value[1]])).store,
                          IF c.subscribed THEN <<data>> ELSE <<>>,
                          "RESULT_SUCCESS", FALSE, TRUE)

onWriteRequest(name, c, store, data, offset) ==
    CASE name = "AutoMode" -> AutoMode_onWriteRequest(c, store, data, offset)
      [] name = "TargetWeight" -> TargetWeight_onWriteRequest(c, store, data, offset)
      [] name = "ScaleUnit" -> ScaleUnit_onWriteRequest(c, store, data, offset)

\* all_variables_set of the Bluetooth process: six gets with string keys.
GateKeys == {"auto_mode", "scale_status", "scale_weight", "scale_unit",
             "target_weight", "target_unit"}
ble_all_variables_set_any(store) ==
    \E k \in GateKeys : McGet(store, StrKey(k)) # None
ble_all_variables_set(store) ==
    \A k \in GateKeys : McGet(store, StrKey(k)) # None

-----------------------------------------------------------------------------
(* The writers of the shared store: every call of set or set_multi in the  *)
(* processes, each as one action, with a log of who tried to store which   *)
(* key and whether the call stored it.                                     *)

SharedKeyNames == KeyNames \cup ScaleKeyNames \cup {"scale_units"}
SharedStore == [k \in SharedKeyNames |-> None]

SettingsKeys == {"auto_mode", "target_weight", "target_unit"}
ScaleKeys == ScaleKeyNames \cup {"scale_units"}

Wrote(by, keys, stored) == {[by |-> by, key |-> k, stored |-> stored] : k \in keys}

\* What the scale controller publishes in these specifications.
Published ==
    [status : {"STABLE", "UNSTABLE"}, weight : {Dec(0, 2), Dec(1038, 2)},
     unit : Units, resolution : {Dec(2, 2)}]

\* The bytes a Bluetooth client may write to a characteristic.
ByteWrites == {<<>>, <<0>>, <<1>>, <<7>>}
TextWrites == {<<>>, <<"1", ".", "5">>, <<"1", ".", "5", "0">>, <<"x">>}
WritesOf ==
    [AutoMode |-> ByteWrites, ScaleUnit |-> ByteWrites, TargetWeight |-> TextWrites]
Offsets == {0, 1}
write_key ==
    [AutoMode |-> "auto_mode", ScaleUnit |-> "target_unit",
     TargetWeight |-> "target_weight"]

\* The LED process of leds.py.  Its keys are the members of the constants
\* Enum themselves, not their .value strings.
LedNew == [pc |-> "gate", status |-> None, error |-> "none"]

\* memcache.get(key, default): the client checks the key before it asks the
\* server, so a key that is not a str raises TypeError.
Got(raised, value) == [raised |-> raised, value |-> value]
led_get(store, key, default) ==
    IF ~check_key(key) THEN Got(TRUE, None)
    ELSE IF McGet(store, key) = None THEN Got(FALSE, default)
    ELSE Got(FALSE, McGet(store, key))

\* all_variables_set of the LED process: the first get that raises ends it.
led_all_variables_set(store) ==
    LET a == led_get(store, EnumKey("auto_mode"), None)
        m == led_get(store, MotorSpeedKey, None)
    IN  IF a.raised \/ m.raised THEN Got(TRUE, None)
        ELSE Got(FALSE, Some(a.value # None /\ m.value # None))

\* TricklerStatus((auto_mode, motor_on)): None stands for ValueError.
TricklerStatus(auto, motor_on) ==
    CASE auto = Some(FALSE) /\ ~motor_on -> Some("READY")
      [] auto = Some(TRUE) /\ motor_on -> Some("RUNNING")
      [] auto = Some(TRUE) /\ ~motor_on -> Some("DONE")
      [] OTHER -> None

\* One round of run(): a poll of the gate, or an iteration of the loop.  A
\* TypeError is caught nowhere and ends the process; a bad combination
\* leaves the loop and run() returns.
led_run(l, store) ==
    IF l.pc = "gate"
    THEN LET g == led_all_variables_set(store)
         IN  IF g.raised THEN [l EXCEPT !.pc = "dead", !.error = "TypeError"]
             ELSE IF g.value[1] THEN [l EXCEPT !.pc = "loop"]
             ELSE l
    ELSE LET m == led_get(store, MotorSpeedKey, Some(0))
             a == led_get(store, EnumKey("auto_mode"), None)
         IN  IF m.raised \/ a.raised
             THEN [l EXCEPT !.pc = "dead", !.error = "TypeError"]
             ELSE LET status == TricklerStatus(a.value, m.value[1] > 0)
                  IN  IF status = None
                      THEN [l EXCEPT !.pc = "returned", !.error = "Bad state"]
                      ELSE [l EXCEPT !.status = status]

InitStore ==
    /\ mc = SharedStore
    /\ pc = "store"
    /\ auto_mode = None
    /\ target_weight = None
    /\ target_unit = None
    /\ scale = ScaleDefault
    /\ pid = PidNew
    /\ motor = MotorFromConfig
    /\ pwm = PwmInit
    /\ exitCause = "none"
    /\ drove = FALSE
    /\ serialOut = "none"
    /\ shutdownRuns = 0
    /\ termCause = "none"
    /\ lastCall = NoCall
    /\ serial = "open"
    /\ sc = Idle
    /\ scLast = Idle
    /\ hw = Idle
    /\ rest = Idle
    /\ wlog = {}
    /\ led = LedNew
    /\ ble = Idle
    /\ asked = {}
    /\ twin = Idle

StoreFrame ==
    UNCHANGED <<pc, auto_mode, target_weight, target_unit, scale, pid, motor,
                exitCause, drove, serialOut, shutdownRuns, termCause, lastCall,
                serial, sc, scLast, hw, rest, led, ble, asked, twin>>

\* main(): the set_multi before the outer loop, from the command line
\* (auto mode or False, target weight or 0.0, the unit or the string 'GN').
StoreMainStart ==
    /\ pc = "store"
    /\ \E a \in BOOLEAN, w \in {Dec(0, 1), Dec(15, 1)},
          u \in {UnitsMember("GRAINS"), UnitsMember("GRAMS"), StrValue("GN")} :
          mc' = [mc EXCEPT !["auto_mode"] = Some(a),
                           !["target_weight"] = Some(w),
                           !["target_unit"] = Some(u)]
    /\ wlog' = wlog \cup Wrote("control", SettingsKeys, TRUE)
    /\ pwm' = pwm
    /\ StoreFrame

\* SerialScale.__init__ -> _store_scale_config
StoreScaleConfig ==
    /\ pc = "store"
    /\ mc' = [mc EXCEPT !["scale_units"] = Some(UnitValue)]
    /\ wlog' = wlog \cup Wrote("scale", {"scale_units"}, TRUE)
    /\ pwm' = pwm
    /\ StoreFrame

\* a decoded reading -> _update_memcache
StoreScaleUpdate ==
    /\ pc = "store"
    /\ \E s \in Published : mc' = _update_memcache(s, mc)
    /\ wlog' = wlog \cup Wrote("scale", ScaleKeyNames, TRUE)
    /\ pwm' = pwm
    /\ StoreFrame

\* TricklerMotor.set_speed
StoreMotorSetSpeed ==
    /\ pc = "store"
    /\ \E speed \in {0, 50} :
          LET r == set_speed(motor, pwm, mc, speed)
          IN  /\ mc' = r.mc
              /\ pwm' = r.pwm
              /\ wlog' = wlog \cup Wrote("motor", {"trickler_motor_speed"}, ~r.raised)
    /\ StoreFrame

\* A Bluetooth client writes a writable characteristic.
StoreBleWrite ==
    /\ pc = "store"
    /\ \E name \in DOMAIN WritesOf, offset \in Offsets :
          \E data \in WritesOf[name] :
             LET r == onWriteRequest(name, CharNew, mc, data, offset)
             IN  /\ mc' = r.store
                 /\ wlog' = wlog \cup
                       (IF r.tried THEN Wrote("ble", {write_key[name]}, ~r.raised)
                        ELSE {})
    /\ pwm' = pwm
    /\ StoreFrame

\* PUT /settings
StoreRestUpdate ==
    /\ pc = "store"
    /\ \E req \in Requests :
          LET r == update_settings(mc, req)
          IN  /\ mc' = r.store
              /\ wlog' = wlog \cup Wrote("rest", SettingsKeys, ~r.raised)
    /\ pwm' = pwm
    /\ StoreFrame

\* The LED process runs: it reads the store and writes nothing to it.
LedRun ==
    /\ pc = "store"
    /\ led.pc \in {"gate", "loop"}
    /\ led' = led_run(led, mc)
    /\ UNCHANGED <<mc, wlog, pwm, pc, auto_mode, target_weight, target_unit,
                   scale, pid, motor, exitCause, drove, serialOut, shutdownRuns,
                   termCause, lastCall, serial, sc, scLast, hw, rest, ble, asked, twin>>

NextStore ==
    \/ LedRun
    \/ StoreMainStart
    \/ StoreScaleConfig
    \/ StoreScaleUpdate
    \/ StoreMotorSetSpeed
    \/ StoreBleWrite
    \/ StoreRestUpdate

StoreSpec == InitStore /\ [][NextStore]_vars

-----------------------------------------------------------------------------
(* The control process running while a Bluetooth client changes the target *)
(* with two writes: the weight characteristic, then the unit               *)
(* characteristic.  The control process has stored its initial settings.   *)

ClientNew == [step |-> "weight", weight |-> 0, unit |-> "GRAINS", raised |-> FALSE]

InitPair ==
    /\ \E w \in Targets \ {0}, u \in Units :
          /\ mc = [EmptyStore EXCEPT !["auto_mode"] = Some(TRUE),
                                     !["target_weight"] = Some(w),
                                     !["target_unit"] = Some(u)]
          /\ asked = {<<Some(w), Some(u)>>}
    /\ pc = "o_auto"
    /\ auto_mode = None
    /\ target_weight = None
    /\ target_unit = None
    /\ scale = ScaleDefault
    /\ pid = PidNew
    /\ motor = MotorFromConfig
    /\ pwm = PwmInit
    /\ exitCause = "none"
    /\ drove = FALSE
    /\ serialOut = "none"
    /\ shutdownRuns = 0
    /\ termCause = "none"
    /\ lastCall = NoCall
    /\ serial = "open"
    /\ sc = Idle
    /\ scLast = Idle
    /\ hw = Idle
    /\ rest = Idle
    /\ wlog = {}
    /\ led = Idle
    /\ ble = ClientNew
    /\ twin = Idle

ClientFrame ==
    UNCHANGED <<pc, auto_mode, target_weight, target_unit, scale, pid, motor, pwm,
                exitCause, drove, serialOut, shutdownRuns, termCause, lastCall,
                serial, sc, scLast, hw, rest, wlog, led, twin>>

\* The client asks for a new target (w, u); its first write is the weight.
ClientWriteWeight ==
    /\ ble.step = "weight"
    /\ \E w \in Targets \ {0}, u \in Units :
          /\ mc' = McSet(mc, TARGET_WEIGHT, Some(w)).store
          /\ ble' = [ble EXCEPT !.step = "unit", !.weight = w, !.unit = u]
          /\ asked' = asked \cup {<<Some(w), Some(u)>>}
    /\ ClientFrame

\* Its second write is the unit, through ScaleUnit.onWriteRequest.
ClientWriteUnit ==
    /\ ble.step = "unit"
    /\ LET r == ScaleUnit_onWriteRequest(CharNew, mc, <<UnitValue[ble.unit]>>, 0)
       IN  /\ mc' = r.store
           /\ ble' = [ble EXCEPT !.step = "done", !.raised = r.raised]
    /\ asked' = asked
    /\ ClientFrame

NextPair ==
    \/ OuterReadAuto
    \/ OuterReadWeight
    \/ OuterReadUnit
    \/ OuterScale
    \/ OuterChangeUnit
    \/ OuterCheck
    \/ Armed
    \/ TricklerCheckAuto
    \/ TricklerIterate
    \/ ClientWriteWeight
    \/ ClientWriteUnit

PairSpec == InitPair /\ [][NextPair]_vars

-----------------------------------------------------------------------------
(* The Bluetooth process: run() of ble_v1.py with its callbacks, next to   *)
(* the control process that fills the store (the scale's constructor, the  *)
(* initial settings, then the scale's readings).                           *)

\* time.sleep(0.1) of the readiness loop, in tenths of a second
GateSleep == 1
\* failing polls of the readiness gate that are followed
MaxPolls == 2

NoneSent == [n \in CharNames |-> <<>>]
NoWrite == [name |-> "none", accepted |-> FALSE, value |-> None]

BleNew ==
    [pc |-> "construct", started |-> FALSE, advertising |-> FALSE,
     polls |-> 0, waited |-> 0, seen |-> {},
     chars |-> [n \in CharNames |-> CharNew],
     op |-> "none", sent |-> NoneSent, wr |-> NoWrite]

InitBle ==
    /\ mc = SharedStore
    /\ pc = "ctl_new"
    /\ auto_mode = None
    /\ target_weight = None
    /\ target_unit = None
    /\ scale = ScaleDefault
    /\ pid = PidNew
    /\ motor = MotorFromConfig
    /\ pwm = PwmInit
    /\ exitCause = "none"
    /\ drove = FALSE
    /\ serialOut = "none"
    /\ shutdownRuns = 0
    /\ termCause = "none"
    /\ lastCall = NoCall
    /\ serial = "open"
    /\ sc = Idle
    /\ scLast = Idle
    /\ hw = Idle
    /\ rest = Idle
    /\ wlog = {}
    /\ led = Idle
    /\ ble = BleNew
    /\ asked = {}
    /\ twin = Idle

BleFrame ==
    UNCHANGED <<auto_mode, target_weight, target_unit, scale, pid, motor, pwm,
                exitCause, drove, serialOut, shutdownRuns, termCause, lastCall,
                serial, sc, scLast, hw, rest, wlog, led, asked, twin>>

\* The control process constructs the scale: _store_scale_config.
CtlScaleConfig ==
    /\ pc = "ctl_new"
    /\ pc' = "ctl_config"
    /\ mc' = [mc EXCEPT !["scale_units"] = Some(UnitValue)]
    /\ ble' = ble
    /\ BleFrame

\* ... stores the initial settings,
CtlMainStart ==
    /\ pc = "ctl_config"
    /\ pc' = "ctl_run"
    /\ \E a \in BOOLEAN :
          mc' = [mc EXCEPT !["auto_mode"] = Some(a),
                           !["target_weight"] = Some(Dec(0, 1)),
                           !["target_unit"] = Some(UnitsMember("GRAINS"))]
    /\ ble' = ble
    /\ BleFrame

\* ... and publishes each decoded reading.
CtlScaleUpdate ==
    /\ pc = "ctl_run"
    /\ pc' = pc
    /\ \E s \in Published :
          /\ s.unit = "GRAINS"
          /\ s.status = "UNSTABLE" => s.weight = Dec(1038, 2)
          /\ mc' = _update_memcache(s, mc)
    /\ ble' = ble
    /\ BleFrame

\* TricklerService(): the ScaleUnit constructor loops on scale_units until
\* the key is there (without sleeping), then run() registers its handlers.
BleConstruct ==
    /\ ble.pc = "construct"
    /\ McGet(mc, StrKey("scale_units")) # None
    /\ ble' = [ble EXCEPT !.pc = "gate"]
    /\ UNCHANGED <<mc, pc>>
    /\ BleFrame

\* One round of the readiness loop: all_variables_set, then either
\* bleno.start() or time.sleep(0.1).
BleGatePoll ==
    /\ ble.pc = "gate"
    /\ ble.polls < MaxPolls \/ ble_all_variables_set(mc)
    /\ ble' = IF ble_all_variables_set(mc)
              THEN [ble EXCEPT !.pc = "run", !.started = TRUE,
                               !.seen = {k \in GateKeys : McGet(mc, StrKey(k)) # None}]
              ELSE [ble EXCEPT !.polls = @ + 1, !.waited = @ + GateSleep,
                               !.seen = {k \in GateKeys : McGet(mc, StrKey(k)) # None}]
    /\ UNCHANGED <<mc, pc>>
    /\ BleFrame

\* on_state_change, which the adapter calls once it has been started.
BleStateChange ==
    /\ ble.started
    /\ \E state \in {"poweredOn", "poweredOff"} :
          ble' = [ble EXCEPT !.advertising = (state = "poweredOn"),
                             !.op = "other", !.sent = NoneSent, !.wr = NoWrite]
    /\ UNCHANGED <<mc, pc>>
    /\ BleFrame

\* all_mc_update from characteristic i on: an exception of a callback ends
\* the round.
RECURSIVE all_mc_update_from(_, _, _, _)
all_mc_update_from(chars, sent, store, i) ==
    IF i > Len(Chars) THEN [chars |-> chars, sent |-> sent, raised |-> "none"]
    ELSE LET n == Chars[i]
             r == mc_update(chars[n], store, n)
             chars2 == [chars EXCEPT ![n] = r.char]
             sent2 == [sent EXCEPT ![n] = r.sent]
         IN  IF r.raised
             THEN [chars |-> chars2, sent |-> sent2,
                   raised |-> IF n = "AutoMode" THEN "struct.error"
                              ELSE "AttributeError"]
             ELSE all_mc_update_from(chars2, sent2, store, i + 1)

all_mc_update(chars, store) == all_mc_update_from(chars, NoneSent, store, 1)

\* One round of the daemon loop.  AttributeError and OSError are caught;
\* any other exception ends the process.
BlePoll ==
    /\ ble.pc = "run"
    /\ LET r == all_mc_update(ble.chars, mc)
       IN  ble' = [ble EXCEPT !.chars = r.chars, !.sent = r.sent, !.op = "poll",
                              !.wr = NoWrite,
                              !.pc = IF r.raised = "struct.error" THEN "dead"
                                     ELSE "run"]
    /\ UNCHANGED <<mc, pc>>
    /\ BleFrame

\* A client subscribes to a characteristic (at most one at a time here).
BleSubscribe ==
    /\ ble.pc = "run" /\ ble.advertising
    /\ \A n \in CharNames : ~ble.chars[n].subscribed
    /\ \E n \in CharNames :
          ble' = [ble EXCEPT !.chars[n].subscribed = TRUE,
                             !.op = "other", !.sent = NoneSent, !.wr = NoWrite]
    /\ UNCHANGED <<mc, pc>>
    /\ BleFrame

BleUnsubscribe ==
    /\ ble.pc = "run"
    /\ \E n \in CharNames :
          /\ ble.chars[n].subscribed
          /\ ble' = [ble EXCEPT !.chars[n].subscribed = FALSE,
                                !.op = "other", !.sent = NoneSent, !.wr = NoWrite]
    /\ UNCHANGED <<mc, pc>>
    /\ BleFrame

\* The value a write request carries, None when its bytes do not decode.
WriteValue(name, data) ==
    IF name = "AutoMode" THEN Some(bytes_to_bool(data))
    ELSE IF name = "TargetWeight" THEN bytes_to_decimal(data)
    ELSE bytes_to_enum(UnitValue, data)

\* A client writes a writable characteristic.
BleWrite ==
    /\ ble.pc = "run" /\ ble.advertising
    /\ \E name \in DOMAIN WritesOf, offset \in Offsets :
          \E data \in WritesOf[name] :
             LET r == onWriteRequest(name, ble.chars[name], mc, data, offset)
                 ok == r.result = "RESULT_SUCCESS"
             IN  /\ mc' = r.store
                 /\ ble' = [ble EXCEPT
                       !.chars[name] = r.char,
                       !.sent = [NoneSent EXCEPT ![name] = r.sent],
                       !.op = "write",
                       !.wr = [name |-> name, accepted |-> ok,
                               value |-> IF ok THEN WriteValue(name, data)
                                         ELSE None]]
    /\ pc' = pc
    /\ BleFrame

NextBle ==
    \/ CtlScaleConfig
    \/ CtlMainStart
    \/ CtlScaleUpdate
    \/ BleConstruct
    \/ BleGatePoll
    \/ BleStateChange
    \/ BlePoll
    \/ BleSubscribe
    \/ BleUnsubscribe
    \/ BleWrite

BleSpec == InitBle /\ [][NextBle]_vars

-----------------------------------------------------------------------------
(* The write handlers of the Bluetooth characteristics, request by request, *)
(* on the store the control process has filled, with the request and the    *)
(* state before it kept next to the outcome.                                *)

\* payloads of a write request: none, one byte, two bytes; texts
RequestWrites ==
    [AutoMode |-> ByteWrites \cup {<<1, 0>>},
     ScaleUnit |-> ByteWrites \cup {<<1, 0>>},
     TargetWeight |-> TextWrites]

\* the store once the scale is configured and main() has stored its settings
SettingsStore(a) ==
    [SharedStore EXCEPT !["scale_units"] = Some(UnitValue),
                        !["scale_unit"] = Some("GRAINS"),
                        !["auto_mode"] = Some(a),
                        !["target_weight"] = Some(Dec(0, 1)),
                        !["target_unit"] = Some(UnitsMember("GRAINS"))]

InitWrite ==
    /\ \E a \in BOOLEAN : mc = SettingsStore(a)
    /\ pc = "ble_write"
    /\ auto_mode = None
    /\ target_weight = None
    /\ target_unit = None
    /\ scale = ScaleDefault
    /\ pid = PidNew
    /\ motor = MotorFromConfig
    /\ pwm = PwmInit
    /\ exitCause = "none"
    /\ drove = FALSE
    /\ serialOut = "none"
    /\ shutdownRuns = 0
    /\ termCause = "none"
    /\ lastCall = NoCall
    /\ serial = "open"
    /\ sc = Idle
    /\ scLast = Idle
    /\ hw = Idle
    /\ rest = Idle
    /\ wlog = {}
    /\ led = Idle
    /\ \E subs \in SUBSET DOMAIN RequestWrites :
          ble = [chars |-> [n \in CharNames |->
                               [CharNew EXCEPT !.subscribed = n \in subs]]]
    /\ asked = {}
    /\ twin = Idle

WriteFrame ==
    UNCHANGED <<pc, auto_mode, target_weight, target_unit, scale, pid, motor,
                pwm, exitCause, drove, serialOut, shutdownRuns, termCause,
                lastCall, serial, sc, scLast, hw, rest, wlog, led, asked>>

\* pybleno calls onWriteRequest of the characteristic the client wrote.
WriteRequest ==
    /\ pc = "ble_write"
    /\ \E name \in DOMAIN RequestWrites, offset \in Offsets :
          \E data \in RequestWrites[name] :
             LET r == onWriteRequest(name, ble.chars[name], mc, data, offset)
             IN  /\ mc' = r.store
                 /\ ble' = [ble EXCEPT !.chars[name] = r.char]
                 /\ twin' = [op |-> "write", name |-> name, data |-> data,
                             offset |-> offset, store |-> mc, chars |-> ble.chars,
                             sent |-> r.sent, result |-> r.result,
                             raised |-> r.raised]
    /\ WriteFrame

NextWrite ==
    \/ WriteRequest

WriteSpec == InitWrite /\ [][NextWrite]_vars

-----------------------------------------------------------------------------
(* One PUT /settings and one Bluetooth write running at the same time.      *)
(* update_settings is taken statement by statement: for each of its three   *)
(* memcache.set calls the callee and the argument are evaluated first (the  *)
(* argument may read the store), then the call stores the argument.         *)

\* the keys in the order update_settings stores them
RestKeys == <<"auto_mode", "target_weight", "target_unit">>

\* the argument of the i-th set call, evaluated on the store as it is now
rest_argument(i, req, store) ==
    CASE i = 1 -> OrBool(req.auto_mode, McGet(store, AUTO_MODE))
      [] i = 2 -> OrJson(req.target_weight, McGet(store, TARGET_WEIGHT))
      [] i = 3 -> UnitMapGet(req.target_unit, McGet(store, TARGET_UNIT))

\* the writes a Bluetooth client makes here: one byte, or a text
RaceWrites ==
    [AutoMode |-> {<<0>>, <<1>>},
     TargetWeight |-> {<<"1", ".", "5">>},
     ScaleUnit |-> {<<1>>}]

InitRace ==
    /\ \E a \in BOOLEAN :
          mc = [SharedStore EXCEPT !["auto_mode"] = Some(a),
                                   !["target_weight"] = Some(Dec(0, 1)),
                                   !["target_unit"] = Some(UnitsMember("GRAINS"))]
    /\ pc = "race"
    /\ auto_mode = None
    /\ target_weight = None
    /\ target_unit = None
    /\ scale = ScaleDefault
    /\ pid = PidNew
    /\ motor = MotorFromConfig
    /\ pwm = PwmInit
    /\ exitCause = "none"
    /\ drove = FALSE
    /\ serialOut = "none"
    /\ shutdownRuns = 0
    /\ termCause = "none"
    /\ lastCall = NoCall
    /\ serial = "open"
    /\ sc = Idle
    /\ scLast = Idle
    /\ hw = Idle
    /\ \E req \in Requests :
          rest = [pc |-> "eval", i |-> 1, req |-> req, arg |-> None,
                  start |-> mc]
    /\ wlog = {}
    /\ led = Idle
    /\ ble = [pc |-> "idle", key |-> "none", stored |-> FALSE, value |-> None]
    /\ asked = {}
    /\ twin = Idle

RaceFrame ==
    UNCHANGED <<pc, auto_mode, target_weight, target_unit, scale, pid, motor,
                pwm, exitCause, drove, serialOut, shutdownRuns, termCause,
                lastCall, serial, sc, scLast, hw, wlog, led, asked, twin>>

\* One step of update_settings.  For memcache.set(KEY, <argument>) the name
\* memcache and the argument are evaluated first: an unbound name raises
\* NameError and ends the handler; then the call stores the argument.
RestStep ==
    /\ rest.pc \in {"eval", "set"}
    /\ IF rest.pc = "eval"
       THEN /\ rest' = IF ~memcache_defined
                       THEN [rest EXCEPT !.pc = "raised"]
                       ELSE [rest EXCEPT !.pc = "set",
                                         !.arg = rest_argument(rest.i, rest.req, mc)]
            /\ mc' = mc
       ELSE /\ mc' = McSet(mc, StrKey(RestKeys[rest.i]), rest.arg).store
            /\ rest' = IF rest.i = Len(RestKeys)
                       THEN [rest EXCEPT !.pc = "returned"]
                       ELSE [rest EXCEPT !.pc = "eval", !.i = rest.i + 1]
    /\ ble' = ble
    /\ RaceFrame

\* The Bluetooth client's write, handled by the characteristic's
\* onWriteRequest at any point of the request.
RaceBleWrite ==
    /\ ble.pc = "idle"
    /\ \E name \in DOMAIN RaceWrites :
          \E data \in RaceWrites[name] :
             LET r == onWriteRequest(name, CharNew, mc, data, 0)
             IN  /\ mc' = r.store
                 /\ ble' = [pc |-> "done", key |-> write_key[name],
                            stored |-> r.result = "RESULT_SUCCESS",
                            value |-> r.store[write_key[name]]]
    /\ rest' = rest
    /\ RaceFrame

NextRace ==
    \/ RestStep
    \/ RaceBleWrite

RaceSpec == InitRace /\ [][NextRace]_vars

-----------------------------------------------------------------------------
(* The control process against a store that loses keys: memcached is a     *)
(* cache, and a restart or an eviction makes a key read back as None.      *)

StoreEvict ==
    /\ pc \in Running
    /\ \E k \in SettingsKeys :
          /\ mc[k] # None
          /\ mc' = [mc EXCEPT ![k] = None]
    /\ UNCHANGED <<pc, auto_mode, target_weight, target_unit, scale, pid, motor, pwm,
                   exitCause, drove, serialOut, shutdownRuns, termCause, lastCall,
                   serial, sc, scLast, hw, rest, wlog, led, ble, asked, twin>>

NextEvict ==
    \/ OuterReadAuto
    \/ OuterReadWeight
    \/ OuterReadUnit
    \/ OuterScale
    \/ OuterChangeUnit
    \/ OuterCheck
    \/ Armed
    \/ TricklerCheckAuto
    \/ TricklerIterate
    \/ StoreEvict

EvictSpec == InitPair /\ [][NextEvict]_vars

-----------------------------------------------------------------------------
(* The PID controller under the calls the control process makes on it,     *)
(* next to a freshly constructed controller given the same update.         *)

\* process variables passed to update(): percentages of the target
ProcessVariables == {0, 50, 99}
\* update() calls followed in one run
MaxUpdates == 3

PidFresh(setpoint) == [PidNew EXCEPT !.SetPoint = setpoint]

InitPid ==
    /\ mc = EmptyStore
    /\ pc = "pid_api"
    /\ auto_mode = None
    /\ target_weight = None
    /\ target_unit = None
    /\ scale = ScaleDefault
    /\ pid = PidNew
    /\ motor = MotorFromConfig
    /\ pwm = PwmInit
    /\ exitCause = "none"
    /\ drove = FALSE
    /\ serialOut = "none"
    /\ shutdownRuns = 0
    /\ termCause = "none"
    /\ lastCall = NoCall
    /\ serial = "open"
    /\ sc = Idle
    /\ scLast = Idle
    /\ hw = Idle
    /\ rest = Idle
    /\ wlog = {}
    /\ led = Idle
    /\ ble = Idle
    /\ asked = {}
    /\ twin = [op |-> "new", x |-> 0, after_clear |-> FALSE, fresh |-> 0, n |-> 0]

PidFrame ==
    UNCHANGED <<mc, pc, auto_mode, target_weight, target_unit, scale, motor, pwm,
                exitCause, drove, serialOut, shutdownRuns, termCause, lastCall,
                serial, sc, scLast, hw, rest, wlog, led, ble, asked>>

\* pid.SetPoint = 100.0
PidSetPoint ==
    /\ pc = "pid_api"
    /\ pid.SetPoint # 100
    /\ pid' = [pid EXCEPT !.SetPoint = 100]
    /\ twin' = [twin EXCEPT !.op = "setpoint"]
    /\ PidFrame

\* pid.update(x); a fresh controller with the same set point is given x too.
PidUpdate ==
    /\ pc = "pid_api"
    /\ twin.n < MaxUpdates
    /\ \E x \in ProcessVariables :
          /\ pid' = pid_update(pid, x)
          /\ twin' = [op |-> "update", x |-> x,
                      after_clear |-> (twin.op = "clear"),
                      fresh |-> pid_update(PidFresh(pid.SetPoint), x).output,
                      n |-> twin.n + 1]
    /\ PidFrame

\* pid.clear()
PidClear ==
    /\ pc = "pid_api"
    /\ twin.op # "clear"
    /\ pid' = pid_clear(pid)
    /\ twin' = [twin EXCEPT !.op = "clear"]
    /\ PidFrame

NextPid ==
    \/ PidSetPoint
    \/ PidUpdate
    \/ PidClear

PidSpec == InitPid /\ [][NextPid]_vars

-----------------------------------------------------------------------------
(* Properties *)

\* C1: a dispensing cycle (the arm delay, then trickler_loop) starts in an outer
\* iteration only from the arming check of that iteration and only if all five
\* preconditions hold on the values it read: scale.weight >= 0, scale.weight <
\* target_weight, scale.unit = target_unit, the scale is stable, auto_mode is true;
\* if one of them is false, the step of the check does not enter the cycle, does
\* not call the motor and leaves the motor's speed at 0.
C1_ArmOnlyOnPreconditions ==
    [][ LET holds == /\ scale.weight >= 0
                     /\ target_weight # None
                     /\ scale.weight < target_weight[1]
                     /\ target_unit = Some(scale.unit)
                     /\ scale.status = "STABLE"
                     /\ auto_mode = Some(TRUE)
        IN /\ (pc' = "armed" /\ pc # "armed") => (pc = "o_check" /\ holds)
           /\ (pc' \in TricklerPcs /\ pc \notin TricklerPcs) => pc = "armed"
           /\ (pc = "o_check" /\ pc' # pc /\ ~holds) =>
                 /\ pc' \notin {"armed"} \cup TricklerPcs
                 /\ ~drove'
                 /\ pwm'.value = 0
      ]_vars

\* C1 witness: the arm delay of a cycle whose preconditions held, with a target
\* above a positive weight on the scale.
C1_Witness ==
    /\ pc = "armed"
    /\ scale.weight > 0
    /\ target_weight = Some(MaxTarget)
    /\ auto_mode = Some(TRUE)

\* C2: whenever trickler_loop is left through one of its exit conditions, the exit
\* actions have run when control is back in the outer loop: the motor's speed is
\* 0 and the PID state is cleared; running the exit actions again changes nothing.
C2_ExitActionsRun ==
    exitCause # "none" =>
        /\ pc = "o_auto"
        /\ pwm.value = 0
        /\ PidCleared(pid)
        /\ LET again == off(motor, pwm, mc) IN
              /\ ~again.raised
              /\ again.pwm = pwm
              /\ again.mc = mc
              /\ pid_clear(pid) = pid

\* C3: when the loop finds auto_mode false in the store while dispensing, it
\* exits to IDLE (the outer loop) in that iteration with the motor off.
C3_AutoModeOffExitsToIdle ==
    exitCause = "auto_mode" => (pc = "o_auto" /\ pwm.value = 0)

\* C4: when a reading while dispensing has weight >= target_weight, the loop exits
\* to IDLE without driving the motor in that iteration, with motor speed 0 and
\* the PID integral 0.
C4_TargetReachedExitsToIdle ==
    exitCause = "complete" =>
        (pc = "o_auto" /\ ~drove /\ pwm.value = 0 /\ pid.ITerm = 0)

\* C5: when a reading while dispensing has a negative weight (pan removed), the
\* loop exits to IDLE in that iteration, motor off, with no motor update for
\* that reading.
C5_PanRemovedExitsToIdle ==
    exitCause = "pan_removed" => (pc = "o_auto" /\ ~drove /\ pwm.value = 0)

\* C6: when a reading while dispensing has a unit other than the target unit, the
\* loop exits to IDLE in that iteration with the motor off and the PID cleared,
\* and no unit-change command has been written to the scale from inside the loop.
C6_UnitMismatchExitsToIdle ==
    exitCause = "unit" =>
        (pc = "o_auto" /\ pwm.value = 0 /\ PidCleared(pid) /\ serialOut = "none")

\* C7: after every call of TricklerMotor.update, whatever the target, the call has
\* returned, the duty applied lies within [min_pwm, max_pwm] of the configuration
\* and within 0..100, and the realized speed is that duty divided by 100.
C7_UpdateWithinBounds ==
    lastCall.op = "update" =>
        /\ ~lastCall.raised
        /\ motor.min_pwm.v <= pwm.value
        /\ pwm.value <= motor.max_pwm.v
        /\ pwm.value \in 0 .. 100

\* C8: set_speed(v) with v < 0 or v > 1 is dropped: the realized speed and the
\* store (so the published trickler_motor_speed) keep their prior values and no
\* error is raised.
C8_OutOfRangeDropped ==
    (lastCall.op = "set_speed" /\ (lastCall.arg < 0 \/ lastCall.arg > 100)) =>
        /\ ~lastCall.raised
        /\ pwm = lastCall.pre_pwm
        /\ mc = lastCall.pre_mc

\* C8 witness: an out-of-range speed has been requested of a running motor.
C8_Witness ==
    /\ lastCall.op = "set_speed"
    /\ lastCall.arg > 100
    /\ lastCall.pre_pwm.value > 0
    /\ pwm.value > 0

\* C9: after every accepted motor command (set_speed(v) with 0 <= v <= 1, off()) of
\* a motor that was given a memcache client, the call has returned and
\* trickler_motor_speed in the store equals the realized speed; off() leaves both
\* at 0.
C9_PublishedEqualsRealized ==
    (/\ motor.memcache
     /\ \/ lastCall.op = "off"
        \/ lastCall.op = "set_speed" /\ lastCall.arg \in 0 .. 100) =>
        /\ ~lastCall.raised
        /\ mc["trickler_motor_speed"] = Some(pwm.value)
        /\ lastCall.op = "off" => pwm.value = 0

\* C10: however the control process has terminated (exception, interrupt or
\* termination signal), the motor's shutdown action has run exactly once: the
\* motor is off and the PWM output is released.
C10_ShutdownRunsOnce ==
    pc \in {"exited", "killed"} =>
        (shutdownRuns = 1 /\ pwm.value = 0 /\ pwm.closed)

\* C11: a malformed or unrecognized line (empty read after a timeout, invalid
\* UTF-8, unknown prefix, or a recognized prefix followed by a truncated or
\* non-numeric weight field or an unknown unit token) makes update() neither
\* raise nor change the in-process reading (status, weight, unit, resolution)
\* nor the published scale_* keys.
C11_MalformedLinesAreNoOps ==
    (ScaleRan(scLast) /\ scLast.read.kind \notin {"reading", "status"}) =>
        /\ ~scLast.raised
        /\ sc.status = scLast.pre.status
        /\ sc.weight = scLast.pre.weight
        /\ sc.unit = scLast.pre.unit
        /\ sc.resolution = scLast.pre.resolution
        /\ mc = scLast.pre_mc

\* C12: for each vendor, decoding a well-formed stable line sets the weight to
\* exactly the signed decimal written in the weight field, every digit kept,
\* the unit to the unit_map image of the line's unit token and the resolution
\* to the vendor's resolution_map entry for that unit.
C12_StableLineDecodedExactly ==
    (/\ ScaleRan(scLast)
     /\ scLast.read.kind = "reading"
     /\ scLast.read.header # <<"U", "S">>) =>
        /\ ~scLast.raised
        /\ sc.weight = scLast.read.weight[1]
        /\ sc.unit = scLast.read.unit[1]
        /\ sc.unit = unit_map(sc.vendor)[UnitToken(sc.vendor, scLast.read.unit[1])]
        /\ sc.resolution = resolution_map(sc.vendor)[sc.unit]

\* a U.S. Solid line with a negative weight in grams was decoded after 1.038
C12_Witness ==
    /\ ScaleRan(scLast)
    /\ sc.vendor = "ussolid"
    /\ scLast.read.kind = "reading"
    /\ sc.weight = Dec(0 - 5, 3)
    /\ sc.unit = "GRAMS"
    /\ scLast.pre.weight = Dec(1038, 3)

\* C13: on a Creedmoor or U.S. Solid controller with a window of capacity N the
\* status is STABLE exactly when the window holds N lines that are all
\* identical, and UNSTABLE otherwise.
C13_StableIffWindowFullAndIdentical ==
    (ScaleRan(sc) /\ sc.vendor \in {"creedmoor", "ussolid"}) =>
        /\ sc.status \in {"STABLE", "UNSTABLE"}
        /\ (sc.status = "STABLE") <=>
               (/\ Len(sc.readings) = sc.maxlen
                /\ \A i, j \in 1 .. Len(sc.readings) : sc.readings[i] = sc.readings[j])

\* C14: on the A&D scale an overload, error or acknowledge line changes only
\* the status; weight, unit and resolution keep the values of the previous
\* reading, in the controller and in the published keys.
C14_StatusLineKeepsReading ==
    (/\ ScaleRan(scLast)
     /\ sc.vendor = "and"
     /\ scLast.read.kind = "status"
     /\ scLast.read.header \in {<<"O", "L">>, <<"E", "C">>, <<"A", "K">>}) =>
        /\ ~scLast.raised
        /\ sc.status = and_status[scLast.read.header]
        /\ sc.weight = scLast.pre.weight
        /\ sc.unit = scLast.pre.unit
        /\ sc.resolution = scLast.pre.resolution
        /\ mc["scale_status"] = Some(sc.status)
        /\ mc["scale_weight"] = Some(scLast.pre.weight)
        /\ mc["scale_unit"] = Some(scLast.pre.unit)
        /\ mc["scale_resolution"] = Some(scLast.pre.resolution)

\* an overload line arrived after a stable reading of 0.1038 g
C14_Witness ==
    /\ ScaleRan(scLast)
    /\ sc.vendor = "and"
    /\ scLast.read.header = <<"O", "L">>
    /\ sc.status = "OVERLOAD"
    /\ scLast.pre.status = "STABLE"
    /\ sc.weight = Dec(1038, 4)
    /\ sc.unit = "GRAMS"
    /\ mc["scale_weight"] = Some(Dec(1038, 4))

\* C15: after every update() that decodes a recognized line the published
\* scale_status, scale_weight, scale_unit, scale_resolution and
\* scale_is_stable equal the controller's status, weight, unit, resolution
\* and is_stable, for every recognized prefix of every vendor.
C15_PublishedEqualsInProcess ==
    (ScaleRan(scLast) /\ scLast.read.kind \in {"reading", "status"}) =>
        /\ mc["scale_status"] = Some(sc.status)
        /\ mc["scale_weight"] = Some(sc.weight)
        /\ mc["scale_unit"] = Some(sc.unit)
        /\ mc["scale_resolution"] = Some(sc.resolution)
        /\ mc["scale_is_stable"] = Some(sc.status = "STABLE")

\* C16: when the serial port cannot be opened the scale constructor raises
\* ScaleNotReady once; the control process ends without entering the control
\* loop or driving the motor, and both registered finalizers (the scale's and
\* the motor's) complete without error.
C16_SerialFailureEndsCleanly ==
    termCause = "ScaleNotReady" =>
        /\ pc = "exited"
        /\ ~drove
        /\ lastCall = NoCall
        /\ pwm = [value |-> 0, closed |-> TRUE]
        /\ shutdownRuns = 1
        /\ serial # "close_failed"

\* C17: an outer iteration issues the unit-change command exactly when the
\* scale's unit is not the target unit, once; with a fixed target unit and a
\* scale that honours every command, the units agree after at most one command
\* and no further command is issued.  This holds for every vendor and for the
\* default target unit written at startup.
C17_UnitReconciliationSettles ==
    (pc = "unit_loop" /\ hw.iters > 0) =>
        /\ hw.issued <=> ~hw.agreed
        /\ hw.streak <= 1
        /\ hw.unit = ArgUnit(hw.arg)

C19_ExplicitValueStored ==
    rest.op = "update_settings" =>
        /\ rest.req.auto_mode # None => mc["auto_mode"] = rest.req.auto_mode
        /\ rest.req.target_weight # None =>
               mc["target_weight"] = rest.req.target_weight

\* C20: update_settings called with all three fields completes without an
\* exception and returns the values of the three keys as stored after the
\* write.
C20_FullUpdateSucceeds ==
    (/\ rest.op = "update_settings"
     /\ rest.req.auto_mode # None
     /\ rest.req.target_weight # None
     /\ rest.req.target_unit # None) =>
        /\ ~rest.raised
        /\ rest.response = Some(SettingsOf(mc))

C22_SingleWriter ==
    \A e \in wlog :
        e.stored =>
            e.by = (IF e.key \in SettingsKeys THEN "rest"
                    ELSE IF e.key = "trickler_motor_speed" THEN "motor"
                    ELSE "scale")

\* C23: the LED process is never ended by what it reads from the store:
\* it stays at its readiness gate or in its polling loop.
C23_LedKeepsPolling == led.pc \in {"gate", "loop"}

\* C24: the control process starts a dispensing cycle only toward a
\* (target_weight, target_unit) pair that a writer asked for, never toward the
\* weight of one request with the unit of another.
C24_ArmsOnlyAskedPairs == pc = "armed" => <<target_weight, target_unit>> \in asked

\* C25: the Bluetooth process has started its adapter, and advertises, only
\* after one poll of its readiness gate found auto_mode, scale_status,
\* scale_weight, scale_unit, target_weight and target_unit all present; while
\* it is at the gate it has slept 0.1 s after every poll that failed.
C25_AdvertisesOnlyWhenReady ==
    /\ (ble.started \/ ble.advertising) => ble.seen = GateKeys
    /\ ble.pc \in {"construct", "gate"} =>
          /\ ~ble.started /\ ~ble.advertising
          /\ ble.waited = ble.polls * GateSleep
          /\ ble.polls > 0 => ble.seen # GateKeys

\* the gate failed twice while only the settings were there, then passed
C25_Witness ==
    /\ ble.advertising
    /\ ble.polls = MaxPolls
    /\ ble.waited = MaxPolls * GateSleep
    /\ ble.seen = GateKeys

\* C30: a subscribed characteristic sends a notification exactly when a poll
\* of the store or an accepted write yields a value that differs from its
\* cached value: one notification, carrying the encoding of the new value;
\* an unchanged value and every other step send nothing.
C30_NotifiedExactlyOnChange ==
    [][ble' # ble =>
        \A n \in CharNames :
            LET c == ble.chars[n]
                polled == mc_get(mc, n)
                written == ble'.wr.value
            IN  /\ (ble'.op = "poll" /\ c.subscribed) =>
                       /\ PyEq(n, ble'.chars[n].cached, polled)
                       /\ ble'.sent[n] = IF PyEq(n, polled, c.cached) THEN <<>>
                                          ELSE <<_send_fn(n, polled).data>>
                /\ (ble'.op = "write" /\ ble'.wr.name = n /\ ble'.wr.accepted
                    /\ c.subscribed) =>
                       ble'.sent[n] = IF PyEq(n, written, c.cached) THEN <<>>
                                      ELSE <<_send_fn(n, written).data>>
                /\ (ble'.op \notin {"poll", "write"} \/ ~c.subscribed) =>
                       ble'.sent[n] = <<>>
                /\ (ble'.op = "write" /\ (ble'.wr.name # n \/ ~ble'.wr.accepted)) =>
                       ble'.sent[n] = <<>>]_vars

\* a subscriber of the scale weight was sent the text of a changed weight
C30_Witness ==
    /\ ble.op = "poll"
    /\ ble.chars["ScaleWeight"].subscribed
    /\ ble.sent["ScaleWeight"] = <<<<"1", "0", ".", "3", "8">>>>
    /\ ble.sent["ScaleStatus"] = <<>>

\* C26: an outer iteration that read auto_mode, target_weight or target_unit
\* as None reaches its arm check without raising there, does not arm, and
\* goes on to the next iteration.
C26_AbsentMeansNotReady ==
    [][(/\ pc = "o_check" /\ pc' # pc
        /\ (auto_mode = None \/ target_weight = None \/ target_unit = None))
       => pc' = "o_auto"]_vars

C28_PercentOfTarget ==
    /\ drove =>
          LET pv == (scale.weight * 100) \div target_weight[1]
          IN  /\ pid.SetPoint = 100
              /\ 0 <= pv /\ pv < 100
              /\ pid.last_error = 100 - pv
    /\ pc \in {"armed"} \cup TricklerPcs => pid.SetPoint = 100

\* the scale read half of the target when the controller was updated
C28_Witness ==
    /\ drove
    /\ scale.weight = 1
    /\ target_weight = Some(2)
    /\ pid.SetPoint = 100
    /\ pid.last_error = 50

C31_RejectedWriteChangesNothing ==
    twin # Idle =>
        LET rejected ==
                \/ twin.offset # 0
                \/ twin.name \in {"AutoMode", "ScaleUnit"} /\ Len(twin.data) # 1
                \/ twin.name = "TargetWeight" /\ Len(twin.data) = 0
        IN  /\ rejected =>
                  /\ mc = twin.store
                  /\ ble.chars = twin.chars
                  /\ twin.sent = <<>>
            /\ (/\ ~rejected /\ twin.name = "ScaleUnit"
                /\ \E u \in Units : UnitValue[u] = twin.data[1]) =>
                  /\ mc["scale_unit"] = twin.store["scale_unit"]
                  /\ mc["target_unit"] # None
                  /\ UnitValue[mc["target_unit"][1].name] = twin.data[1]

\* C32: a step of the dispensing loop that reads the scale leaves the loop
\* only when the unit differs from the target unit, the weight is negative
\* or the remainder is not positive; in every other case, whatever status the
\* line carried and also when no line was read, the motor is driven from the
\* weight the controller holds and the loop goes on.
C32_EndsOnlyByExitCondition ==
    [][(pc = "t_scale" /\ pc' # pc /\ termCause' \notin {"sigint", "sigterm"}) =>
          IF \/ Some(scale'.unit) # target_unit
             \/ scale'.weight < 0
             \/ target_weight[1] - scale'.weight <= 0
          THEN /\ pc' \notin TricklerPcs
               /\ exitCause' \in {"unit", "pan_removed", "complete"}
          ELSE /\ pc' = "t_auto"
               /\ drove']_vars

\* C33: next to a scale that never sends a line, the control loop never arms
\* and never enters the dispensing loop, and the motor is never driven: the
\* reading the constructor leaves does not satisfy the arm condition.
C33_SilentScaleNeverArms ==
    /\ pc \notin {"armed"} \cup TricklerPcs
    /\ ~drove

\* C34: while the control process is at startup, in the outer loop (polling,
\* unit reconciliation, arm check) or in the delay after arming, the motor's
\* realized speed is 0.
C34_MotorStillOutsideLoop ==
    pc \in {"start", "armed"} \cup OuterPcs => pwm.value = 0

\* the delay after arming, with powder already in the pan
C34_Witness ==
    /\ pc = "armed"
    /\ pwm.value = 0
    /\ scale.weight > 0
    /\ auto_mode = Some(TRUE)
    /\ ~pwm.closed

\* C35: from the arming of a cycle to its end the target weight and target
\* unit the loop works with stay the values the arming iteration read,
\* whatever is written to the store meanwhile; the remainder and the unit
\* exit are decided on them, and only auto_mode is read from the store again,
\* at the top of each iteration.
C35_CycleKeepsArmedTarget ==
    [][/\ pc \in {"armed"} \cup TricklerPcs =>
              /\ target_weight' = target_weight
              /\ target_unit' = target_unit
       /\ (pc = "t_scale" /\ exitCause' = "complete") =>
              target_weight[1] - scale'.weight <= 0
       /\ (pc = "t_scale" /\ exitCause' = "unit") =>
              Some(scale'.unit) # target_unit
       /\ (pc = "t_scale" /\ drove') =>
              /\ target_weight[1] - scale'.weight > 0
              /\ Some(scale'.unit) = target_unit
       /\ (pc = "t_auto" /\ pc' # pc /\ termCause' \notin {"sigint", "sigterm"}) =>
              (exitCause' = "auto_mode" <=> mc["auto_mode"] # Some(TRUE))
      ]_vars

\* the cycle ended as complete on the armed target although the store by then
\* held a larger one
C35_Witness ==
    /\ exitCause = "complete"
    /\ mc["target_weight"] # None
    /\ mc["target_weight"][1] > scale.weight
    /\ target_weight[1] <= scale.weight

\* C36: from arming to the end of a cycle the target weight the loop works
\* with is a number greater than 0, whatever target the store holds or is
\* written meanwhile (0 included): the loop never divides by zero.
C36_CycleTargetPositive ==
    pc \in {"armed"} \cup TricklerPcs =>
        /\ target_weight # None
        /\ target_weight[1] > 0

\* a cycle is running while the store's target has been set to 0
C36_Witness ==
    /\ pc = "t_scale"
    /\ mc["target_weight"] = Some(0)
    /\ target_weight # None
    /\ target_weight[1] > 0

\* C37: once the control process has exited and its finalizers have run, the
\* store's trickler_motor_speed is 0, also when it exited inside a cycle.
C37_PublishedZeroAfterExit ==
    (pc = "exited" /\ shutdownRuns > 0) => mc["trickler_motor_speed"] = Some(0)

\* C38: once the control process has stored its initial settings, a poll of
\* the LED process's readiness gate passes, whether or not auto_mode is on and
\* whether or not the motor has ever been driven.
C38_LedGatePasses ==
    (led.pc = "gate" /\ Wrote("control", SettingsKeys, TRUE) \subseteq wlog /\
     mc["auto_mode"] # None) =>
        led_run(led, mc).pc = "loop"

====
